---------------------------- MODULE Spec2Model ----------------------------
(***************************************************************************)
(* A model of the forensic-adb client library (src/src/lib.rs).            *)
(*                                                                         *)
(* Byte strings (Rust &str, Vec<u8>, the contents of a stream) are kept    *)
(* run-length encoded: a sequence of runs [b |-> byte, n |-> count], no    *)
(* two neighbouring runs of the same byte.  B(<<79, 75>>) is the byte      *)
(* string "OK"; BLen, Take, Drop, Cat and StartsWith are the usual         *)
(* operations.  The encoding is exact, and it keeps a 64 KiB payload as    *)
(* small as a 1-byte one.                                                  *)
(*                                                                         *)
(* A Rust Result is a record [kind, val]: kind "Ok" carries the value, any *)
(* other kind is the DeviceError variant ("Adb", "Io", "FromInt",          *)
(* "ParseInt", "Utf8", ...) with val its message; kind "Panic" is a Rust   *)
(* panic (the call does not return).                                       *)
(*                                                                         *)
(* The module holds several specifications over one set of variables; each *)
(* specification drives one group of variables and leaves the others at    *)
(* their idle values:                                                      *)
(*   SpecCodec     encode_message, read_length                             *)
(*   SpecResponse  read_response on a server reply                         *)
(*   SpecDevice    Device::execute_host_command, exec_out, forward_port    *)
(*   SpecPush      Device::push                                            *)
(*   SpecPull      Device::pull                                            *)
(*   SpecSession   all device operations (the three above together)        *)
(*   SpecRunAs     Device::enable_run_as_for_path                          *)
(*   SpecPushDir   Device::push_dir and its progress channels              *)
(*   SpecList      Device::list_dir, list_dir_flat                         *)
(*   SpecStat      Device::stat                                            *)
(*   SpecMetadata  list_dir and stat together                              *)
(*   SpecHost      Host::devices, Host::device_or_default                  *)
(*   SpecHandles   Device::new and Clone of a Device                       *)
(*   SpecTrack     Host::track_devices                                     *)
(*   SpecShell     Device::execute_host_shell_command_as                   *)
(*   SpecInstall   Device::install_package                                 *)
(*   SpecLittleEndian  write_ and read_length_little_endian                *)
(*   SpecSync      push, pull, list_dir and stat together                  *)
(*   SpecDir       push_dir and pull_dir with their aggregator tasks       *)
(*   SpecDirFair   SpecDir with the aggregator tasks scheduled fairly      *)
(*   SpecProgress  push_with_progress, pull_with_progress, long transfers  *)
(*   SpecListFair  SpecList with the walk polled until it returns          *)
(*   SpecConnections  the TCP connections of a sequence of operations      *)
(*   SpecReplies   commands on a device, pull and list_dir together        *)
(*   SpecInstallProgress  Device::install_package_with_progress            *)
(*                                                                         *)
(* A device operation is modelled step by step on its connection: devIn is *)
(* what the server is still to send, devLog the writes and reads made so   *)
(* far, in order.                                                          *)
(***************************************************************************)
EXTENDS Integers, Sequences, FiniteSets, TLC

VARIABLES
    codecOp,      \* which codec function was applied last ("idle" at first)
    codecIn,      \* its input: the payload, or the bytes left in the stream
    codecOut,     \* its result: [res |-> Result, rest |-> bytes left unread]
    respOp,       \* "idle", then "read_response" once it was applied
    respIn,       \* the bytes the server sends on the stream before it closes
    respArgs,     \* [has_output, has_length, trace]: the two arguments, and
                  \* whether the log crate's trace level is enabled
    respOut,      \* [res |-> Result, rest |-> bytes left unread]
    devOp,        \* the device operation running: "idle", "execute_host_command",
                  \* "exec_out", "forward_port", "push", "pull", "push_dir",
                  \* "enable_run_as_for_path", "list_dir", "stat",
                  \* "device_or_default", "new", "clone", "track_devices",
                  \* "shell", "install_package", "pull_dir", "connections",
                  \* "install_package_with_progress"
    devPc,        \* where the operation stands ("done" once it returned)
    devArgs,      \* its arguments and the scenario the environment follows
    devIn,        \* the bytes the server is still to send on the connection
    devLog,       \* what happened so far, in order: [ev |-> "write" | "read" |
                  \* "shell" | ..., bytes |-> the bytes written or consumed]
    devOut,       \* the Result the operation returned
    xfer          \* the local side of a transfer: the source still to read and
                  \* the chunks read (push), the sink (pull)

codecVars == <<codecOp, codecIn, codecOut>>

respVars == <<respOp, respIn, respArgs, respOut>>

devVars == <<devOp, devPc, devArgs, devIn, devLog, devOut, xfer>>

vars == <<codecVars, respVars, devVars>>

\* the variables of each group while no specification drives them
CodecIdle ==
    /\ codecOp = "idle"
    /\ codecIn = <<>>
    /\ codecOut = [res |-> [kind |-> "Ok", val |-> <<>>], rest |-> <<>>]

RespIdle ==
    /\ respOp = "idle"
    /\ respIn = <<>>
    /\ respArgs = [has_output |-> FALSE, has_length |-> FALSE, trace |-> FALSE]
    /\ respOut = [res |-> [kind |-> "Ok", val |-> <<>>], rest |-> <<>>]

DevIdle ==
    /\ devOp = "idle"
    /\ devPc = "idle"
    /\ devArgs = [command |-> <<>>]
    /\ devIn = <<>>
    /\ devLog = <<>>
    /\ devOut = [kind |-> "Ok", val |-> <<>>]
    /\ xfer = [source |-> <<>>, sink |-> <<>>]

---------------------------------------------------------------------------
(* Results                                                                 *)

Ok(v) == [kind |-> "Ok", val |-> v]

Err(k, m) == [kind |-> k, val |-> m]

IsOk(r) == r.kind = "Ok"

Min(a, b) == IF a <= b THEN a ELSE b

---------------------------------------------------------------------------
(* Byte strings, run-length encoded                                        *)

Run(b, n) == [b |-> b, n |-> n]

\* concatenation; the runs that meet are merged when they hold the same byte
Cat(x, y) ==
    IF x = <<>> THEN y
    ELSE IF y = <<>> THEN x
    ELSE IF x[Len(x)].b = y[1].b
         THEN SubSeq(x, 1, Len(x) - 1)
                  \o <<Run(y[1].b, x[Len(x)].n + y[1].n)>>
                  \o Tail(y)
         ELSE x \o y

\* the byte string of a tuple of bytes
RECURSIVE B(_)
B(bytes) ==
    IF bytes = <<>> THEN <<>>
    ELSE IF Len(bytes) = 1 THEN <<Run(bytes[1], 1)>>
    ELSE LET half == Len(bytes) \div 2
         IN  Cat(B(SubSeq(bytes, 1, half)), B(SubSeq(bytes, half + 1, Len(bytes))))

\* the tuple of bytes of a (short) byte string
\* (of the runs lo..hi)
RECURSIVE RunsBytes(_, _, _)
RunsBytes(x, lo, hi) ==
    IF lo > hi THEN <<>>
    ELSE IF lo = hi THEN [i \in 1..x[lo].n |-> x[lo].b]
    ELSE LET mid == (lo + hi) \div 2
         IN  RunsBytes(x, lo, mid) \o RunsBytes(x, mid + 1, hi)

Bytes(x) == RunsBytes(x, 1, Len(x))

\* n times the byte b
Fill(b, n) == IF n = 0 THEN <<>> ELSE <<Run(b, n)>>

\* str::len, Vec::len
\* (of the runs lo..hi)
RECURSIVE RunsLen(_, _, _)
RunsLen(x, lo, hi) ==
    IF lo > hi THEN 0
    ELSE IF lo = hi THEN x[lo].n
    ELSE LET mid == (lo + hi) \div 2
         IN  RunsLen(x, lo, mid) + RunsLen(x, mid + 1, hi)

BLen(x) == RunsLen(x, 1, Len(x))

\* where byte k of x falls, counting from run lo and looking up to run hi: the
\* first run that is not wholly within the k bytes (hi + 1 if there is none),
\* and how many of the k bytes reach into it
RECURSIVE Split(_, _, _, _)

\* the same, n being the length of the runs lo..mid
SplitAt(x, lo, mid, hi, k, n) ==
    IF n > k THEN Split(x, lo, mid, k) ELSE Split(x, mid + 1, hi, k - n)

Split(x, lo, hi, k) ==
    IF lo > hi THEN [run |-> lo, bytes |-> k]
    ELSE IF lo = hi
         THEN IF x[lo].n > k THEN [run |-> lo, bytes |-> k]
              ELSE [run |-> lo + 1, bytes |-> k - x[lo].n]
    ELSE SplitAt(x, lo, (lo + hi) \div 2, hi, k, RunsLen(x, lo, (lo + hi) \div 2))

\* x[0..k] (all of x when it is shorter), s being where byte k falls
TakeAt(x, s) ==
    IF s.run > Len(x) \/ s.bytes = 0 THEN SubSeq(x, 1, s.run - 1)
    ELSE Append(SubSeq(x, 1, s.run - 1), Run(x[s.run].b, s.bytes))

Take(x, k) == TakeAt(x, Split(x, 1, Len(x), k))

\* x[k..] : Vec::split_off(k), the unread tail of a stream
DropAt(x, s) ==
    IF s.run > Len(x) THEN <<>>
    ELSE IF s.bytes = 0 THEN SubSeq(x, s.run, Len(x))
    ELSE << Run(x[s.run].b, x[s.run].n - s.bytes) >> \o SubSeq(x, s.run + 1, Len(x))

Drop(x, k) == DropAt(x, Split(x, 1, Len(x), k))

\* slice::starts_with
StartsWith(x, prefix) ==
    /\ BLen(x) >= BLen(prefix)
    /\ Take(x, BLen(prefix)) = prefix

\* ASCII codes of the characters the model formats and parses
Ascii0 == <<48>>[1]
Ascii9 == <<57>>[1]
AsciiUpperA == <<65>>[1]
AsciiUpperF == <<70>>[1]
AsciiLowerA == <<97>>[1]
AsciiLowerF == <<102>>[1]
AsciiPlus == <<43>>[1]

\* std::str::from_utf8 succeeds.  Every byte the model puts on a stream is
\* either ASCII or 0xFF, and on those bytes UTF-8 validity is "all ASCII".
from_utf8_ok(x) == \A i \in 1..Len(x) : x[i].b < 128

---------------------------------------------------------------------------
(* Wire codec: host framing                                                *)

U16Max == 65535

\* one digit of format!("{:X}")
UpperHexDigit(d) == IF d < 10 THEN Ascii0 + d ELSE AsciiUpperA + (d - 10)

\* format!("{:X}", n): the shortest uppercase hexadecimal numeral of n
RECURSIVE UpperHex(_)
UpperHex(n) ==
    IF n < 16 THEN <<UpperHexDigit(n)>>
    ELSE UpperHex(n \div 16) \o <<UpperHexDigit(n % 16)>>

\* the fill of format!("{:0>4X}"): right-aligned, '0'-filled to a MINIMUM width
PadLeft(s, width, fill) ==
    IF Len(s) >= width THEN s
    ELSE [i \in 1..(width - Len(s)) |-> fill] \o s

\* the mutant of encode_message: `payload.len() as u16` instead of u16::try_from
encode_message_wrapping(payload) ==
    Ok(Cat(B(PadLeft(UpperHex(BLen(payload) % (U16Max + 1)), 4, Ascii0)), payload))

\* fn encode_message(payload: &str) -> Result<String>
encode_message(payload) ==
    IF BLen(payload) > U16Max
    THEN Err("FromInt", <<>>)
    ELSE Ok(Cat(B(PadLeft(UpperHex(BLen(payload)), 4, Ascii0)), payload))

\* AsyncReadExt::read_exact(&mut buf[0..n]): n bytes or an UnexpectedEof error
\* (the bytes that were there are consumed either way)
read_exact(stream, n) ==
    IF BLen(stream) >= n
    THEN [ok |-> TRUE, bytes |-> Take(stream, n), rest |-> Drop(stream, n)]
    ELSE [ok |-> FALSE, bytes |-> <<>>, rest |-> <<>>]

\* char::to_digit(16): 0..15, or -1 for a character that is no hex digit
to_digit16(c) ==
    IF c >= Ascii0 /\ c <= Ascii9 THEN c - Ascii0
    ELSE IF c >= AsciiUpperA /\ c <= AsciiUpperF THEN c - AsciiUpperA + 10
    ELSE IF c >= AsciiLowerA /\ c <= AsciiLowerF THEN c - AsciiLowerA + 10
    ELSE -1

RECURSIVE DigitsValue(_)
DigitsValue(digits) ==
    IF digits = <<>> THEN 0
    ELSE 16 * DigitsValue(SubSeq(digits, 1, Len(digits) - 1))
         + to_digit16(digits[Len(digits)])

\* usize::from_str_radix(s, 16) on a tuple of characters: an optional leading
\* '+' and then one or more hex digits of either case; "", "+", "-" and any
\* other character (a '-' included, usize being unsigned) are a
\* ParseIntError.  At most 4 characters are ever parsed, so usize cannot
\* overflow.
from_str_radix16(s) ==
    LET digits == IF s # <<>> /\ s[1] = AsciiPlus THEN Tail(s) ELSE s
    IN  IF digits = <<>> \/ \E i \in 1..Len(digits) : to_digit16(digits[i]) < 0
        THEN Err("ParseInt", <<>>)
        ELSE Ok(DigitsValue(digits))

\* async fn read_length(stream) -> Result<usize>, with the bytes left unread
read_length(stream) ==
    LET r == read_exact(stream, 4)
    IN  IF ~r.ok THEN [res |-> Err("Io", <<>>), rest |-> r.rest]
        ELSE IF ~from_utf8_ok(r.bytes) THEN [res |-> Err("Utf8", <<>>), rest |-> r.rest]
        ELSE [res |-> from_str_radix16(Bytes(r.bytes)), rest |-> r.rest]

---------------------------------------------------------------------------
(* SpecCodec: the codec functions applied to bounded inputs                *)

MaxPayloadSmall == 20
MaxPayloadOver == 2
MaxStreamLen == 4

\* payload lengths: the short ones, the lengths where the hex numeral grows
\* a digit, and the lengths around the u16 limit
PayloadLens ==
    (0 .. MaxPayloadSmall)
        \cup {255, 256, 4095, 4096}
        \cup ((U16Max - 1) .. (U16Max + MaxPayloadOver))

\* a payload: up to two leading characters, then 'a' repeated
Payloads ==
    { Take(Cat(head, Fill(AsciiLowerA, n)), n) :
        head \in { <<>>, B(<<48>>), B(<<79, 75>>) }, n \in PayloadLens }

RECURSIVE SeqsUpTo(_, _)
SeqsUpTo(S, n) ==
    IF n = 0 THEN { <<>> }
    ELSE LET shorter == SeqsUpTo(S, n - 1)
         IN  shorter \cup { Append(s, x) : s \in { t \in shorter : Len(t) = n - 1 }, x \in S }

\* '0' 'A' 'F' 'f' 'G' '+' '-' and the invalid UTF-8 byte 0xFF
LengthAlphabet == {48, 65, 70, 102, 71, 43, 45, 255}

LengthStreams == { B(s) : s \in SeqsUpTo(LengthAlphabet, MaxStreamLen) }

\* the groups SpecCodec leaves alone
codecOthers == <<respVars, devVars>>

InitCodec == CodecIdle /\ RespIdle /\ DevIdle

EncodeMessage ==
    /\ codecOp = "idle"
    /\ \E payload \in Payloads :
        /\ codecOp' = "encode_message"
        /\ codecIn' = payload
        /\ codecOut' = [res |-> encode_message(payload), rest |-> <<>>]
    /\ UNCHANGED codecOthers

ReadLength ==
    /\ codecOp = "idle"
    /\ \E stream \in LengthStreams :
        /\ codecOp' = "read_length"
        /\ codecIn' = stream
        /\ codecOut' = read_length(stream)
    /\ UNCHANGED codecOthers

NextCodec == EncodeMessage \/ ReadLength

SpecCodec == InitCodec /\ [][NextCodec]_vars

---------------------------------------------------------------------------
(* Claims on the wire codec                                                *)

UpperHexChars == (Ascii0 .. Ascii9) \cup (AsciiUpperA .. AsciiUpperF)

HexChars == UpperHexChars \cup (AsciiLowerA .. AsciiLowerF)

\* h, a tuple of characters, is 4 uppercase hex digits
IsUpperHex4(h) == Len(h) = 4 /\ \A i \in 1..4 : h[i] \in UpperHexChars

\* int(h, 16) of a 4-digit uppercase numeral, written out positionally
HexValue4(h) ==
    LET d(i) == IF h[i] <= Ascii9 THEN h[i] - Ascii0 ELSE h[i] - AsciiUpperA + 10
    IN  4096 * d(1) + 256 * d(2) + 16 * d(3) + d(4)

\* C1: encode_message(s) is the 4-character uppercase, zero-padded hex byte
\* length of s followed by s unchanged when s has at most 65535 bytes, and an
\* error (no truncated or wrapped prefix) when s is longer.
C1_EncodeMessage ==
    codecOp = "encode_message" =>
        LET s == codecIn
            r == codecOut.res
        IN  IF BLen(s) <= 65535
            THEN /\ IsOk(r)
                 /\ BLen(r.val) = 4 + BLen(s)
                 /\ IsUpperHex4(Bytes(Take(r.val, 4)))
                 /\ HexValue4(Bytes(Take(r.val, 4))) = BLen(s)
                 /\ Drop(r.val, 4) = s
            ELSE ~IsOk(r)

\* C1 witness: a payload of exactly 65535 bytes was encoded with the prefix
\* FFFF
C1_Witness ==
    /\ codecOp = "encode_message"
    /\ BLen(codecIn) = 65535
    /\ IsOk(codecOut.res)
    /\ Take(codecOut.res.val, 4) = B(<<70, 70, 70, 70>>)

\* C2: read_length consumes exactly the first 4 bytes and returns int(h, 16)
\* when they are 4 uppercase hex digits h; it returns an error on empty input,
\* on fewer than 4 bytes, on a negative sign and whenever one of the 4 bytes is
\* not a hex character.
C2_ReadLength ==
    codecOp = "read_length" =>
        LET s == Bytes(codecIn)
            r == codecOut
        IN  /\ (Len(s) >= 4 /\ IsUpperHex4(SubSeq(s, 1, 4))) =>
                    /\ r.res = Ok(HexValue4(SubSeq(s, 1, 4)))
                    /\ r.rest = B(SubSeq(s, 5, Len(s)))
            /\ Len(s) < 4 => ~IsOk(r.res)
            /\ (Len(s) >= 4 /\ \E i \in 1..4 : s[i] \notin HexChars) => ~IsOk(r.res)

\* C2, what the code does: the same, except that a leading '+' followed by
\* three hex digits is accepted (usize::from_str_radix allows the sign)
C2_ReadLengthButPlus ==
    codecOp = "read_length" =>
        LET s == Bytes(codecIn)
            r == codecOut
        IN  /\ (Len(s) >= 4 /\ IsUpperHex4(SubSeq(s, 1, 4))) =>
                    /\ r.res = Ok(HexValue4(SubSeq(s, 1, 4)))
                    /\ r.rest = B(SubSeq(s, 5, Len(s)))
            /\ Len(s) < 4 => ~IsOk(r.res)
            /\ (Len(s) >= 4 /\ \E i \in 1..4 : s[i] \notin HexChars) =>
                    \/ ~IsOk(r.res)
                    \/ /\ s[1] = AsciiPlus
                       /\ \A i \in 2..4 : s[i] \in HexChars
                       /\ r.res = Ok(DigitsValue(SubSeq(s, 2, 4)))

---------------------------------------------------------------------------
(* Response reader                                                         *)

\* SyncCommand::code() (crate::adb, not among the source files): the 4-byte
\* ASCII command codes of the wire protocol
Okay == B(<<79, 75, 65, 89>>)    \* "OKAY"
Fail == B(<<70, 65, 73, 76>>)    \* "FAIL"

AdbErrorPrefix == B(<<97, 100, 98, 32, 101, 114, 114, 111, 114, 58, 32>>)   \* "adb error: "

NoHexLengthPrefix ==
    B(<<97, 100, 98, 32, 115, 101, 114, 118, 101, 114, 32, 114, 101, 115, 112,
        111, 110, 115, 101, 32, 100, 105, 100, 32, 110, 111, 116, 32, 99, 111,
        110, 116, 97, 105, 110, 32, 101, 120, 112, 101, 99, 116, 101, 100, 32,
        104, 101, 120, 115, 116, 114, 105, 110, 103, 32, 108, 101, 110, 103,
        116, 104, 58, 32>>)
    \* "adb server response did not contain expected hexstring length: "

\* `let mut bytes: [u8; 1024]`: the buffer the error message is read into
ResponseBufLen == 1024

\* read_response, the reply does not start with OKAY: the length-prefixed
\* message that follows, at most a buffer of it, as a protocol error
read_error_reply(stream) ==
    LET l == read_length(stream)
    IN  IF ~IsOk(l.res) THEN [res |-> l.res, rest |-> l.rest]
        ELSE LET n == Min(ResponseBufLen, l.res.val)
                 m == read_exact(l.rest, n)
             IN  IF ~m.ok THEN [res |-> Err("Io", <<>>), rest |-> m.rest]
                 ELSE IF ~from_utf8_ok(m.bytes)
                      THEN [res |-> Err("Utf8", <<>>), rest |-> m.rest]
                 ELSE [res |-> Err("Adb", Cat(AdbErrorPrefix, m.bytes)), rest |-> m.rest]

\* mutant of strip_second_okay: every leading OKAY is dropped
RECURSIVE strip_every_okay(_)
strip_every_okay(response) ==
    IF StartsWith(response, Okay) THEN strip_every_okay(Drop(response, 4))
    ELSE response

\* read_response, the output starts with a second OKAY: split_off(4)
strip_second_okay(response) ==
    IF StartsWith(response, Okay) THEN Drop(response, 4) ELSE response

\* mutant of fail_in_output: only FAIL is dropped, its 4 length bytes are kept
fail_in_output_keeps_length(response) ==
    IF BLen(response) < 8 THEN Err("Panic", <<>>)
    ELSE LET message == Drop(response, 4)
         IN  IF from_utf8_ok(message) THEN Err("Adb", Cat(AdbErrorPrefix, message))
             ELSE Err("Utf8", <<>>)

\* read_response, the output starts with FAIL: split_off(8) drops FAIL and the
\* 4 length bytes (and panics when fewer than 8 bytes are there); the rest is
\* the message of a protocol error
fail_in_output(response) ==
    IF BLen(response) < 8 THEN Err("Panic", <<>>)
    ELSE LET message == Drop(response, 8)
         IN  IF from_utf8_ok(message) THEN Err("Adb", Cat(AdbErrorPrefix, message))
             ELSE Err("Utf8", <<>>)

\* read_response, has_length: the leading 4 hex characters are parsed and the
\* remainder is the payload, whatever length was declared.  The
\* from_utf8(&message)? inside trace!() is evaluated only when the trace level
\* is enabled.
framed_payload(response, trace) ==
    IF BLen(response) >= 4
    THEN LET message == Drop(response, 4)
             n == read_length(Take(response, 4)).res
         IN  IF ~IsOk(n) THEN n
             ELSE IF trace /\ ~from_utf8_ok(message) THEN Err("Utf8", <<>>)
             ELSE Ok(message)
    ELSE IF ~from_utf8_ok(response) THEN Err("Utf8", <<>>)
    ELSE Err("Adb", Cat(NoHexLengthPrefix, Cat(B(<<34>>), Cat(response, B(<<34>>)))))

\* mutant of read_response: the error reply is read only when the status is
\* FAIL; any other status is taken for success
read_response_only_fail(stream, has_output, has_length, trace) ==
    LET status == read_exact(stream, 4)
    IN  IF ~status.ok THEN [res |-> Err("Io", <<>>), rest |-> status.rest]
        ELSE IF status.bytes = Fail THEN read_error_reply(status.rest)
        ELSE IF ~has_output THEN [res |-> Ok(<<>>), rest |-> status.rest]
        ELSE [res |-> Ok(status.rest), rest |-> <<>>]

\* mutant of read_response: with has_length the length is read from the
\* stream even when no output is asked for
read_response_reads_length(stream, has_output, has_length, trace) ==
    LET status == read_exact(stream, 4)
    IN  IF ~status.ok THEN [res |-> Err("Io", <<>>), rest |-> status.rest]
        ELSE IF status.bytes # Okay THEN read_error_reply(status.rest)
        ELSE IF ~has_output
             THEN IF has_length
                  THEN [ res |-> IF IsOk(read_length(status.rest).res) THEN Ok(<<>>)
                                 ELSE read_length(status.rest).res,
                         rest |-> read_length(status.rest).rest ]
                  ELSE [res |-> Ok(<<>>), rest |-> status.rest]
        ELSE LET response == strip_second_okay(status.rest)
             IN  [ res |-> IF StartsWith(response, Fail) THEN fail_in_output(response)
                           ELSE IF has_length THEN framed_payload(response, trace)
                           ELSE Ok(response),
                   rest |-> <<>> ]

\* async fn read_response(stream, has_output, has_length) -> Result<Vec<u8>>,
\* with the bytes left unread on the stream.  `stream` is everything the
\* server sends before it closes the connection, which is what read_to_end
\* returns.
read_response(stream, has_output, has_length, trace) ==
    LET status == read_exact(stream, 4)
    IN  IF ~status.ok THEN [res |-> Err("Io", <<>>), rest |-> status.rest]
        ELSE IF status.bytes # Okay THEN read_error_reply(status.rest)
        ELSE IF ~has_output THEN [res |-> Ok(<<>>), rest |-> status.rest]
        ELSE LET response == strip_second_okay(status.rest)
             IN  [ res |-> IF StartsWith(response, Fail) THEN fail_in_output(response)
                           ELSE IF has_length THEN framed_payload(response, trace)
                           ELSE Ok(response),
                   rest |-> <<>> ]

---------------------------------------------------------------------------
(* SpecResponse: read_response applied to the replies a server can send    *)

MaxReplyTokens == 3

\* an error message longer than read_response's buffer
LongMessage == Fill(120, ResponseBufLen + 1)

\* a reply is a concatenation of these pieces
ReplyTokens ==
    { Okay, Fail,
      B(<<48, 48, 48, 50>>),     \* "0002"
      B(<<104, 105>>),           \* "hi"
      B(<<48, 52, 48, 49>>),     \* "0401", the length of LongMessage
      LongMessage,
      B(<<255, 255>>) }          \* not UTF-8

RECURSIVE Flatten(_)
Flatten(seqs) == IF seqs = <<>> THEN <<>> ELSE Cat(seqs[1], Flatten(Tail(seqs)))

\* up to MaxReplyTokens pieces, alone or behind one or two OKAY (the
\* acknowledgements of the transport and of the command)
Replies ==
    LET tails == { Flatten(ts) : ts \in SeqsUpTo(ReplyTokens, MaxReplyTokens) }
    IN  tails \cup { Cat(Okay, t) : t \in tails } \cup { Cat(Okay, Cat(Okay, t)) : t \in tails }

\* the trace level is read only on the has_output, has_length path
ResponseArgs ==
    { a \in [has_output : BOOLEAN, has_length : BOOLEAN, trace : BOOLEAN] :
        a.trace => (a.has_output /\ a.has_length) }

respOthers == <<codecVars, devVars>>

InitResponse == CodecIdle /\ RespIdle /\ DevIdle

ReadResponse ==
    /\ respOp = "idle"
    /\ \E stream \in Replies, args \in ResponseArgs :
        /\ respOp' = "read_response"
        /\ respIn' = stream
        /\ respArgs' = args
        /\ respOut' = read_response(stream, args.has_output, args.has_length, args.trace)
    /\ UNCHANGED respOthers

NextResponse == ReadResponse

SpecResponse == InitResponse /\ [][NextResponse]_vars

---------------------------------------------------------------------------
(* Claims on the response reader                                           *)

\* the i-th byte of a byte string
ByteAt(x, i) == Take(Drop(x, i - 1), 1)[1].b

\* the reply is a 4-byte status followed by a well-formed length-prefixed
\* ASCII message: 4 hex digits n and at least min(n, cap) bytes
HasFramedMessage(stream, cap) ==
    /\ BLen(stream) >= 8
    /\ \A i \in 5..8 : ByteAt(stream, i) \in HexChars
    /\ LET n == DigitsValue(Bytes(Take(Drop(stream, 4), 4)))
       IN  /\ BLen(stream) >= 8 + Min(n, cap)
           /\ from_utf8_ok(Take(Drop(stream, 8), Min(n, cap)))

FramedMessage(stream, cap) ==
    Take(Drop(stream, 8), Min(DigitsValue(Bytes(Take(Drop(stream, 4), 4))), cap))

\* C3: whenever the first 4 bytes of a reply are not OKAY, read_response
\* returns no payload, whatever has_output and has_length are; it returns the
\* protocol error built from the length-prefixed message that follows, at most
\* 1024 bytes of it.
C3_NotOkayIsProtocolError ==
    (respOp = "read_response" /\ BLen(respIn) >= 4 /\ Take(respIn, 4) # Okay) =>
        /\ ~IsOk(respOut.res)
        /\ HasFramedMessage(respIn, 1024) =>
              /\ respOut.res.kind = "Adb"
              /\ respOut.res.val = Cat(AdbErrorPrefix, FramedMessage(respIn, 1024))
              /\ BLen(respOut.res.val) <= BLen(AdbErrorPrefix) + 1024

\* C3 witness: a status that is neither OKAY nor FAIL, then a 1025-byte
\* message, of which 1024 bytes came back in the error
C3_Witness ==
    /\ respOp = "read_response"
    /\ BLen(respIn) >= 4 /\ Take(respIn, 4) \notin {Okay, Fail}
    /\ respOut.res.kind = "Adb"
    /\ BLen(respOut.res.val) = BLen(AdbErrorPrefix) + 1024

\* C4: when output is expected and the bytes after the first OKAY begin with a
\* second OKAY, exactly those 4 bytes are dropped: a reply OKAY.OKAY.P yields
\* the payload P (P less its 4 length characters under has_length, and an
\* error when P begins with FAIL), and an OKAY that P itself begins with is
\* never stripped.
C4_SecondOkayDropped ==
    (/\ respOp = "read_response"
     /\ respArgs.has_output
     /\ StartsWith(respIn, Cat(Okay, Okay))) =>
        LET P == Drop(respIn, 8)
        IN  /\ (~StartsWith(P, Fail) /\ ~respArgs.has_length) => respOut.res = Ok(P)
            /\ IsOk(respOut.res) =>
                  respOut.res.val = IF respArgs.has_length THEN Drop(P, 4) ELSE P

\* C4 witness: OKAY.OKAY.OKAY.x came back as the payload OKAY.x
C4_Witness ==
    /\ respOp = "read_response"
    /\ respArgs.has_output /\ ~respArgs.has_length
    /\ StartsWith(respIn, Cat(Okay, Cat(Okay, Okay)))
    /\ BLen(respIn) > 12
    /\ respOut.res = Ok(Drop(respIn, 8))

\* what is left of the output once an optional second OKAY is dropped
AfterOptionalOkay(stream) ==
    LET body == Drop(stream, 4)
    IN  IF BLen(body) >= 4 /\ Take(body, 4) = Okay THEN Drop(body, 4) ELSE body

\* C5: when output is expected and, after an optional second OKAY, the
\* remaining bytes begin with FAIL, read_response never returns them as a
\* payload; the bytes after FAIL and its 4 length bytes are the message of the
\* protocol error it returns.
C5_FailInOutput ==
    (/\ respOp = "read_response"
     /\ respArgs.has_output
     /\ StartsWith(respIn, Okay)
     /\ StartsWith(AfterOptionalOkay(respIn), Fail)) =>
        LET R == AfterOptionalOkay(respIn)
        IN  /\ ~IsOk(respOut.res)
            /\ (BLen(R) >= 8 /\ from_utf8_ok(Drop(R, 8))) =>
                  respOut.res = Err("Adb", Cat(AdbErrorPrefix, Drop(R, 8)))

\* C5 witness: OKAY.OKAY.FAIL.0002.hi gave the protocol error "adb error: hi"
C5_Witness ==
    /\ respOp = "read_response"
    /\ respArgs.has_output
    /\ respIn = B(<<79, 75, 65, 89, 79, 75, 65, 89, 70, 65, 73, 76, 48, 48, 48, 50, 104, 105>>)
    /\ respOut.res = Err("Adb", Cat(AdbErrorPrefix, B(<<104, 105>>)))

---------------------------------------------------------------------------
(* Device operations: the connection                                       *)

\* self.serial
Serial == B(<<101, 109, 117, 108, 97, 116, 111, 114, 45, 53, 53, 53, 52>>)   \* "emulator-5554"

\* format!("host:transport:{}", self.serial)
TransportCommand ==
    Cat(B(<<104, 111, 115, 116, 58, 116, 114, 97, 110, 115, 112, 111, 114, 116, 58>>), Serial)

\* format!("{}", n) of an unsigned integer: its decimal numeral
RECURSIVE Decimal(_)
Decimal(n) ==
    IF n < 10 THEN <<Ascii0 + n>>
    ELSE Decimal(n \div 10) \o <<Ascii0 + (n % 10)>>

\* the value of a tuple of decimal digits
RECURSIVE DecimalValue(_)
DecimalValue(digits) ==
    IF digits = <<>> THEN 0
    ELSE 10 * DecimalValue(SubSeq(digits, 1, Len(digits) - 1))
         + (digits[Len(digits)] - Ascii0)

\* str::parse::<u16>() on a byte string: an optional '+', then decimal digits
\* of a value that fits 16 bits
parse_u16(x) ==
    LET s == Bytes(x)
        digits == IF s # <<>> /\ s[1] = AsciiPlus THEN Tail(s) ELSE s
    IN  IF digits = <<>> \/ \E i \in 1..Len(digits) : digits[i] < Ascii0 \/ digits[i] > Ascii9
        THEN Err("ParseInt", <<>>)
        ELSE IF DecimalValue(digits) > U16Max THEN Err("ParseInt", <<>>)
        ELSE Ok(DecimalValue(digits))

Event(ev, bytes) == [ev |-> ev, bytes |-> bytes]

\* the bytes a read took off the stream
Consumed(before, rest) == Take(before, BLen(before) - BLen(rest))

\* `return r` / `?` : the operation is over
Return(r) == devPc' = "done" /\ devOut' = r

\* stream.write_all(bytes), and the step that follows
Write(bytes, pc) ==
    /\ devLog' = Append(devLog, Event("write", bytes))
    /\ devPc' = pc
    /\ UNCHANGED devOut

\* stream.write_all(encode_message(command)?.as_bytes())
WriteMessage(command, pc) ==
    LET m == encode_message(command)
    IN  IF IsOk(m) THEN Write(m.val, pc)
        ELSE Return(m) /\ UNCHANGED devLog

\* the operations that go through Host::execute_command, without a transport
HostOps == { "forward_port", "device_or_default", "track_devices" }

\* the operations that open a sync session
SyncOps == { "push", "pull", "list_dir", "stat" }

\* the server's answer to host:transport: accepted, refused with a message,
\* cut short, or none
TransportReplies ==
    { Okay,
      Cat(Fail, B(<<48, 48, 48, 50, 104, 105>>)),     \* FAIL 0002 hi
      B(<<79, 75>>),
      <<>> }

\* the server's answer to the command itself
CommandReplies == { Okay, Cat(Fail, B(<<48, 48, 48, 50, 104, 105>>)), <<>> }

\* What reaches the client before its next read.  A command on a device has
\* the whole stream of the server in devIn from the start; in a sync session
\* the server's answer to a request arrives when the client reads it.
Arriving ==
    IF devOp \notin SyncOps THEN { <<>> }
    ELSE IF devPc = "transport_written" THEN TransportReplies
    ELSE CommandReplies

\* read_response(&mut stream, has_output, has_length), the reply handed to
\* after(_) when it is Ok
ReadResponseThen(has_output, has_length, trace, after(_)) ==
    \E reply \in Arriving :
        LET stream == Cat(devIn, reply)
            r == read_response(stream, has_output, has_length, trace)
        IN  /\ devIn' = r.rest
            /\ devLog' = Append(devLog, Event("read", Consumed(stream, r.rest)))
            /\ IF IsOk(r.res) THEN after(r.res.val) ELSE Return(r.res)

devOthers == <<codecVars, respVars>>

\* Host::connect: TcpStream::connect within ADB_CONNECT_TIMEOUT
Connect ==
    /\ devPc = "connect"
    /\ devPc' = "connected"
    /\ devLog' = Append(devLog, Event("connect", <<>>))
    /\ UNCHANGED <<devOp, devArgs, devIn, devOut, xfer>>
    /\ UNCHANGED devOthers

ConnectFails ==
    /\ devPc = "connect"
    /\ \E kind \in { "Io", "ConnectTimeout" } : Return(Err(kind, <<>>))
    /\ UNCHANGED <<devOp, devArgs, devIn, devLog, xfer>>
    /\ UNCHANGED devOthers

\* a write to the connection, a read of the source or a write to the sink
\* fails: the `?` returns the I/O error
IoFails ==
    /\ devPc \in { "connected", "transport_ok", "sync_ready", "sending", "source_end",
                   "receiving" }
    /\ Return(Err("Io", <<>>))
    /\ UNCHANGED <<devOp, devArgs, devIn, devLog, xfer>>
    /\ UNCHANGED devOthers

\* the first request on the connection of a device operation: host:transport
WriteTransport ==
    /\ devPc = "connected"
    /\ devOp \notin HostOps
    /\ WriteMessage(TransportCommand, "transport_written")
    /\ UNCHANGED <<devOp, devArgs, devIn, xfer>>
    /\ UNCHANGED devOthers

\* mutant of ReadTransport: the reply to host:transport is read and not
\* looked at
ReadTransportUnchecked ==
    /\ devPc = "transport_written"
    /\ \E reply \in Arriving :
        LET stream == Cat(devIn, reply)
            r == read_response(stream, FALSE, devOp \in SyncOps, FALSE)
        IN  /\ devIn' = r.rest
            /\ devLog' = Append(devLog, Event("read", Consumed(stream, r.rest)))
    /\ devPc' = "transport_ok"
    /\ UNCHANGED <<devOp, devArgs, devOut, xfer>>
    /\ UNCHANGED devOthers

\* read_response(&mut stream, false, false) in execute_host_command,
\* read_response(&mut stream, false, true) in the sync operations
ReadTransport ==
    /\ devPc = "transport_written"
    /\ LET after(bytes) == devPc' = "transport_ok" /\ UNCHANGED devOut
       IN  ReadResponseThen(FALSE, devOp \in SyncOps, FALSE, after)
    /\ UNCHANGED <<devOp, devArgs, xfer>>
    /\ UNCHANGED devOthers

\* Device::execute_host_command: the command, on the selected transport
WriteCommand ==
    /\ devPc = "transport_ok"
    /\ devOp \in { "execute_host_command", "exec_out" }
    /\ WriteMessage(devArgs.command, "command_written")
    /\ UNCHANGED <<devOp, devArgs, devIn, xfer>>
    /\ UNCHANGED devOthers

\* Device::execute_host_command: the reply is the result
ReadReply ==
    /\ devPc = "command_written"
    /\ LET after(bytes) == Return(Ok(bytes))
       IN  ReadResponseThen(devArgs.has_output, devArgs.has_length, devArgs.trace, after)
    /\ UNCHANGED <<devOp, devArgs, xfer>>
    /\ UNCHANGED devOthers

\* Host::execute_command: the command is the first request on the connection
HostWriteCommand ==
    /\ devPc = "connected"
    /\ devOp \in HostOps
    /\ WriteMessage(devArgs.command, "host_command_written")
    /\ UNCHANGED <<devOp, devArgs, devIn, xfer>>
    /\ UNCHANGED devOthers

\* Host::execute_command reads the reply as a string; forward_port returns the
\* port in it when it asked for any port (local = 0), else the port it asked for
HostReadReply ==
    /\ devOp = "forward_port"
    /\ devPc = "host_command_written"
    /\ LET after(bytes) ==
               IF ~from_utf8_ok(bytes) THEN Return(Err("Utf8", <<>>))
               ELSE IF devArgs.local = 0 THEN Return(parse_u16(bytes))
               ELSE Return(Ok(devArgs.local))
       IN  ReadResponseThen(devArgs.has_output, devArgs.has_length, FALSE, after)
    /\ UNCHANGED <<devOp, devArgs, xfer>>
    /\ UNCHANGED devOthers

---------------------------------------------------------------------------
(* SpecDevice: commands on a device                                        *)

MaxOutputTokens == 2

\* a byte sequence longer than any buffer or frame of the protocol
HugeOutput == Fill(120, U16Max + 5)

\* what the device command writes before the stream ends: pieces that look
\* like protocol words, text, bytes that are not UTF-8, a large output
OutputTokens ==
    { Okay, Fail,
      B(<<48, 48, 48, 50>>),     \* "0002"
      B(<<104, 105>>),           \* "hi"
      B(<<255>>),
      HugeOutput }

Outputs == { Flatten(ts) : ts \in SeqsUpTo(OutputTokens, MaxOutputTokens) }

\* a command longer than encode_message accepts
LongCommand == Fill(AsciiLowerA, U16Max + 1)

HostCommands == { B(<<115, 104, 101, 108, 108, 58, 108, 115>>), LongCommand }   \* "shell:ls"

ShellCommands == { B(<<108, 115>>), LongCommand }                               \* "ls"

\* what the server answers to a forward request after its status
PortOutputs ==
    { <<>>, B(<<52, 48, 48, 48, 49>>),               \* "40001"
      Cat(Okay, B(<<52, 48, 48, 48, 49>>)),          \* OKAY "40001"
      B(<<48, 48, 48, 53, 52, 48, 48, 48, 49>>),     \* "000540001"
      B(<<48, 48, 48, 52, 49, 50, 51, 52>>),         \* "00041234"
      B(<<55, 48, 48, 48, 48>>),                     \* "70000"
      B(<<43, 53>>),                                 \* "+5"
      B(<<104, 105>>), B(<<255>>) }

LocalPorts == { 0, 8080 }

RemotePorts == { 80 }

\* format!("host-serial:{}:forward:tcp:{};tcp:{}", self.serial, local, remote)
ForwardCommand(local, remote) ==
    Flatten(<< B(<<104, 111, 115, 116, 45, 115, 101, 114, 105, 97, 108, 58>>),
               Serial,
               B(<<58, 102, 111, 114, 119, 97, 114, 100, 58, 116, 99, 112, 58>>),
               B(Decimal(local)),
               B(<<59, 116, 99, 112, 58>>),
               B(Decimal(remote)) >>)

\* Device::execute_host_command(command, has_output, has_length)
ExecuteHostCommand ==
    /\ devOp = "idle"
    /\ \E command \in HostCommands, flags \in ResponseArgs,
          tr \in TransportReplies, cr \in CommandReplies, output \in Outputs :
        /\ devOp' = "execute_host_command"
        /\ devPc' = "connect"
        /\ devArgs' = [ command |-> command,
                        has_output |-> flags.has_output,
                        has_length |-> flags.has_length,
                        trace |-> flags.trace,
                        transport_reply |-> tr, command_reply |-> cr, output |-> output ]
        /\ devIn' = Cat(tr, Cat(cr, output))
    /\ UNCHANGED <<devLog, devOut, xfer>>
    /\ UNCHANGED devOthers

\* Device::execute_host_exec_out_command(shell_command)
ExecOut ==
    /\ devOp = "idle"
    /\ \E shell_command \in ShellCommands,
          tr \in TransportReplies, cr \in CommandReplies, output \in Outputs :
        /\ devOp' = "exec_out"
        /\ devPc' = "connect"
        /\ devArgs' = [ command |-> Cat(B(<<101, 120, 101, 99, 58>>), shell_command),   \* "exec:"
                        has_output |-> TRUE, has_length |-> FALSE, trace |-> FALSE,
                        transport_reply |-> tr, command_reply |-> cr, output |-> output ]
        /\ devIn' = Cat(tr, Cat(cr, output))
    /\ UNCHANGED <<devLog, devOut, xfer>>
    /\ UNCHANGED devOthers

\* Device::forward_port(local, remote)
ForwardPort ==
    /\ devOp = "idle"
    /\ \E local \in LocalPorts, remote \in RemotePorts,
          cr \in CommandReplies, output \in PortOutputs :
        /\ devOp' = "forward_port"
        /\ devPc' = "connect"
        /\ devArgs' = [ command |-> ForwardCommand(local, remote),
                        has_output |-> TRUE, has_length |-> FALSE, trace |-> FALSE,
                        local |-> local, remote |-> remote,
                        command_reply |-> cr, output |-> output ]
        /\ devIn' = Cat(cr, output)
    /\ UNCHANGED <<devLog, devOut, xfer>>
    /\ UNCHANGED devOthers

InitDevice == CodecIdle /\ RespIdle /\ DevIdle

NextDevice ==
    \/ ExecuteHostCommand \/ ExecOut \/ ForwardPort
    \/ Connect \/ ConnectFails \/ IoFails
    \/ WriteTransport \/ ReadTransport \/ WriteCommand \/ ReadReply
    \/ HostWriteCommand \/ HostReadReply

SpecDevice == InitDevice /\ [][NextDevice]_vars

---------------------------------------------------------------------------
(* Claims on the commands on a device                                      *)

\* the server accepted the transport and the command, the command was
\* written and its reply read: connect, write, read, write, read
CommandAccepted ==
    /\ devPc = "done"
    /\ Len(devLog) = 5
    /\ devArgs.transport_reply = Okay
    /\ devArgs.command_reply = Okay

\* C6: for every byte sequence B that the device command writes before the
\* stream ends, exec_out returns exactly B: no byte is added, dropped or
\* rewritten.
C6_ExecOutReturnsOutput ==
    (devOp = "exec_out" /\ CommandAccepted) => devOut = Ok(devArgs.output)

\* what the code does instead: B comes back unchanged unless it begins with
\* OKAY (whose 4 bytes are dropped) or with FAIL (which makes an error, or a
\* panic)
C6_ExecOutButProtocolWords ==
    (devOp = "exec_out" /\ CommandAccepted) =>
        LET output == devArgs.output
        IN  IF StartsWith(output, Okay)
            THEN IF StartsWith(Drop(output, 4), Fail) THEN ~IsOk(devOut)
                 ELSE devOut = Ok(Drop(output, 4))
            ELSE IF StartsWith(output, Fail) THEN ~IsOk(devOut)
            ELSE devOut = Ok(output)

---------------------------------------------------------------------------
(* Sync sessions                                                           *)

\* SyncCommand::code() (crate::adb, not among the source files)
Send == B(<<83, 69, 78, 68>>)
Data == B(<<68, 65, 84, 65>>)
Done == B(<<68, 79, 78, 69>>)
Recv == B(<<82, 69, 67, 86>>)

UnknownFailure == B(<<70, 65, 73, 76, 32, 40, 117, 110, 107, 110, 111, 119, 110, 41>>)

NotUtf8Failure == B(<<97, 100, 98, 32, 101, 114, 114, 111, 114, 32, 119, 97, 115, 32, 110, 111, 116, 32, 117, 116, 102, 45, 56>>)

\* the 4 bytes write_length_little_endian(writer, n) hands to writer.write(),
\* least significant first; the writer is taken to accept all 4 at once
length_little_endian(n) ==
    B(<< n % 256, (n \div 256) % 256, (n \div 65536) % 256, (n \div 16777216) % 256 >>)

\* async fn read_length_little_endian(reader) -> Result<usize>
read_length_little_endian(stream) ==
    LET r == read_exact(stream, 4)
        b == Bytes(r.bytes)
    IN  IF ~r.ok THEN [res |-> Err("Io", <<>>), rest |-> r.rest]
        ELSE [ res |-> Ok(b[1] + 256 * b[2] + 65536 * b[3] + 16777216 * b[4]),
               rest |-> r.rest ]

\* mutant of read_sync_failure: the whole message is read, whatever the buffer
read_sync_failure_whole_message(stream, buf_len) ==
    LET l == read_length_little_endian(stream)
    IN  IF ~IsOk(l.res) THEN [res |-> l.res, rest |-> l.rest]
        ELSE LET m == read_exact(l.rest, l.res.val)
             IN  IF ~m.ok THEN [res |-> Err("Io", <<>>), rest |-> m.rest]
                 ELSE [ res |-> Err("Adb", IF from_utf8_ok(m.bytes)
                                           THEN Cat(AdbErrorPrefix, m.bytes)
                                           ELSE NotUtf8Failure),
                        rest |-> m.rest ]

\* a FAIL frame in a sync session: the message that follows, at most a buffer
\* of it, as a protocol error
read_sync_failure(stream, buf_len) ==
    LET l == read_length_little_endian(stream)
    IN  IF ~IsOk(l.res) THEN [res |-> l.res, rest |-> l.rest]
        ELSE LET m == read_exact(l.rest, Min(buf_len, l.res.val))
             IN  IF ~m.ok THEN [res |-> Err("Io", <<>>), rest |-> m.rest]
                 ELSE [ res |-> Err("Adb", IF from_utf8_ok(m.bytes)
                                           THEN Cat(AdbErrorPrefix, m.bytes)
                                           ELSE NotUtf8Failure),
                        rest |-> m.rest ]

\* A remote path is the sequence of its components, <<>> being "/";
\* an Option is <<>> (None) or <<v>> (Some(v)).

\* UnixPath::display
RECURSIVE display(_)
display(path) ==
    IF path = <<>> THEN B(<<47>>)
    ELSE IF Len(path) = 1 THEN Cat(B(<<47>>), path[1])
    ELSE Cat(display(SubSeq(path, 1, Len(path) - 1)), Cat(B(<<47>>), path[Len(path)]))

\* UnixPath::parent
parent(path) == IF path = <<>> THEN <<>> ELSE << SubSeq(path, 1, Len(path) - 1) >>

\* mutant of enable_run_as_for_path: the texts of the paths are compared, not
\* their components
enable_run_as_by_text(package, path) ==
    /\ package # <<>>
    /\ StartsWith(display(path), display(<< B(<<100, 97, 116, 97>>), B(<<100, 97, 116, 97>>), package[1] >>))

\* Device::enable_run_as_for_path: the path lies under /data/data/<package>
enable_run_as_for_path(package, path) ==
    /\ package # <<>>
    /\ Len(path) >= 3
    /\ SubSeq(path, 1, 3) = << B(<<100, 97, 116, 97>>), B(<<100, 97, 116, 97>>), package[1] >>

\* self.tempfile: /data/local/tmp/<uuid>
Tempfile == << B(<<100, 97, 116, 97>>), B(<<108, 111, 99, 97, 108>>), B(<<116, 109, 112>>), B(<<117, 117, 105, 100>>) >>

\* a shell command run through execute_host_shell_command_as, on a
\* connection of its own
ShellEvent(command, run_as) == [ev |-> "shell", bytes |-> command, run_as |-> run_as]

\* the sync: request of push, pull, list and stat
WriteSync ==
    /\ devPc = "transport_ok"
    /\ devOp \in SyncOps
    /\ WriteMessage(B(<<115, 121, 110, 99, 58>>), "sync_written")
    /\ UNCHANGED <<devOp, devArgs, devIn, xfer>>
    /\ UNCHANGED devOthers

\* read_response(&mut stream, false, true) after sync:
ReadSync ==
    /\ devPc = "sync_written"
    /\ LET after(bytes) == devPc' = "sync_ready" /\ UNCHANGED devOut
       IN  ReadResponseThen(FALSE, TRUE, FALSE, after)
    /\ UNCHANGED <<devOp, devArgs, xfer>>
    /\ UNCHANGED devOthers

---------------------------------------------------------------------------
(* Device::push                                                            *)

\* `let mut buf = [0; 32 * 1024]` of push_internal
PushBufLen == 32768

\* "Send progress every 4M"
PushProgressStep == 4194304

\* enable_run_as and dest1 of push_internal
EnableRunAs == enable_run_as_for_path(devArgs.package, devArgs.dest)

Dest1 == IF EnableRunAs THEN Tempfile ELSE devArgs.dest

\* sender.send(FileTransferProgress { total_bytes, transferred_bytes }), when
\* there is a sender
Progress(sofar, total, transferred) ==
    IF devArgs.progress
    THEN Append(sofar, [total_bytes |-> total, transferred_bytes |-> transferred])
    ELSE sofar

\* the shell command push issues at this step, and whether it runs under
\* run-as: path_exists, create_dir, chmod, the copy out of the staging file,
\* remove
PendingShell ==
    CASE devPc = "probe" ->
            ShellEvent(Cat(B(<<108, 115, 32>>), display(xfer.current[1])), EnableRunAs)
      [] devPc = "create_dir" ->
            ShellEvent(Cat(B(<<109, 107, 100, 105, 114, 32, 45, 112, 32>>), display(xfer.leaf[1])),
                       enable_run_as_for_path(devArgs.package, xfer.leaf[1]))
      [] devPc = "chmod" ->
            ShellEvent(Cat(B(<<99, 104, 109, 111, 100, 32, 32, 45, 82, 32, 55, 55, 55, 32>>), display(xfer.root[1])),
                       enable_run_as_for_path(devArgs.package, xfer.root[1]))
      [] devPc = "copy" ->
            ShellEvent(Flatten(<< B(<<99, 112, 32, 45, 97, 82, 32>>), display(Dest1), B(<<32>>), display(devArgs.dest) >>),
                       EnableRunAs)
      [] OTHER ->
            ShellEvent(Cat(B(<<114, 109, 32, 45, 114, 102, 32>>), display(Dest1)),
                       enable_run_as_for_path(devArgs.package, Dest1))

\* mutant of ProbeAncestor: root is set once, with leaf
ProbeAncestorRootIsLeaf ==
    /\ devPc = "probe"
    /\ devLog' = Append(devLog, PendingShell)
    /\ LET path == xfer.current[1]
       IN  IF Len(path) <= devArgs.existing
           THEN /\ devPc' = IF xfer.leaf = <<>> THEN "connect" ELSE "create_dir"
                /\ xfer' = xfer
           ELSE /\ devPc' = IF parent(path) = <<>> THEN "create_dir" ELSE "probe"
                /\ xfer' = [xfer EXCEPT !.leaf = IF @ = <<>> THEN <<path>> ELSE @,
                                        !.root = IF @ = <<>> THEN <<path>> ELSE @,
                                        !.current = parent(path)]
    /\ UNCHANGED <<devOp, devArgs, devIn, devOut>>
    /\ UNCHANGED devOthers

\* while let Some(path) = current: path_exists(path, enable_run_as); the
\* first ancestor that exists ends the walk, a missing one becomes root (and
\* leaf, if it is the first)
ProbeAncestor ==
    /\ devPc = "probe"
    /\ devLog' = Append(devLog, PendingShell)
    /\ LET path == xfer.current[1]
       IN  IF Len(path) <= devArgs.existing
           THEN /\ devPc' = IF xfer.leaf = <<>> THEN "connect" ELSE "create_dir"
                /\ xfer' = xfer
           ELSE /\ devPc' = IF parent(path) = <<>> THEN "create_dir" ELSE "probe"
                /\ xfer' = [xfer EXCEPT !.leaf = IF @ = <<>> THEN <<path>> ELSE @,
                                        !.root = <<path>>,
                                        !.current = parent(path)]
    /\ UNCHANGED <<devOp, devArgs, devIn, devOut>>
    /\ UNCHANGED devOthers

\* create_dir(leaf), then chmod(root, "777", true)
PrepareAncestors ==
    /\ devPc \in { "create_dir", "chmod" }
    /\ devLog' = Append(devLog, PendingShell)
    /\ devPc' = IF devPc = "create_dir" THEN "chmod" ELSE "connect"
    /\ UNCHANGED <<devOp, devArgs, devIn, devOut, xfer>>
    /\ UNCHANGED devOthers

\* path_exists, create_dir or chmod returns an error: `?`
ShellFails ==
    /\ devPc \in { "probe", "create_dir", "chmod" }
    /\ devLog' = Append(devLog, PendingShell)
    /\ Return(Err("Io", <<>>))
    /\ UNCHANGED <<devOp, devArgs, devIn, xfer>>
    /\ UNCHANGED devOthers

\* SEND, the length of "<dest1>,<mode>", and that string
WriteSend ==
    /\ devOp = "push"
    /\ devPc = "sync_ready"
    /\ LET args == Flatten(<< display(Dest1), B(<<44>>), B(Decimal(devArgs.mode)) >>)
       IN  devLog' = devLog \o << Event("write", Send),
                                  Event("write", length_little_endian(BLen(args))),
                                  Event("write", args) >>
    /\ devPc' = "sending"
    /\ UNCHANGED <<devOp, devArgs, devIn, devOut, xfer>>
    /\ UNCHANGED devOthers

\* mutant of ReadSizes: a read returns all that is left of the source
ReadSizesWholeSource == { BLen(xfer.source) }

\* what buffer.read(&mut buf) may return on a source with bytes left: as much
\* as fits the buffer, or less while the reader still has short reads in it
ReadSizes ==
    LET full == Min(PushBufLen, BLen(xfer.source))
    IN  { full } \cup IF xfer.short_reads > 0 THEN { 1, full - 1 } \ { 0, full } ELSE {}

\* mutant of SendChunk: a progress record once more than 4 MiB went out since
\* the last one
SendChunkMoreThanStep ==
    /\ devPc = "sending"
    /\ xfer.source # <<>>
    /\ \E len \in ReadSizes :
        LET transferred == xfer.transferred + len
            report == transferred - xfer.last_progress > PushProgressStep
        IN  /\ devLog' = devLog \o << Event("write", Data),
                                      Event("write", length_little_endian(len)),
                                      Event("write", Take(xfer.source, len)) >>
            /\ xfer' = [xfer EXCEPT
                   !.source = Drop(@, len),
                   !.short_reads = IF len < Min(PushBufLen, BLen(xfer.source)) THEN @ - 1 ELSE @,
                   !.transferred = transferred,
                   !.progress = IF report THEN Progress(@, devArgs.total_bytes, transferred) ELSE @,
                   !.last_progress = IF devArgs.progress /\ report THEN transferred ELSE @]
    /\ UNCHANGED <<devOp, devPc, devArgs, devIn, devOut>>
    /\ UNCHANGED devOthers

\* one turn of the loop with len > 0: DATA, the length, the bytes read; a
\* progress record once 4 MiB went out since the last one
SendChunk ==
    /\ devPc = "sending"
    /\ xfer.source # <<>>
    /\ \E len \in ReadSizes :
        LET transferred == xfer.transferred + len
            report == transferred - xfer.last_progress >= PushProgressStep
        IN  /\ devLog' = devLog \o << Event("write", Data),
                                      Event("write", length_little_endian(len)),
                                      Event("write", Take(xfer.source, len)) >>
            /\ xfer' = [xfer EXCEPT
                   !.source = Drop(@, len),
                   !.short_reads = IF len < Min(PushBufLen, BLen(xfer.source)) THEN @ - 1 ELSE @,
                   !.transferred = transferred,
                   !.progress = IF report THEN Progress(@, devArgs.total_bytes, transferred) ELSE @,
                   !.last_progress = IF devArgs.progress /\ report THEN transferred ELSE @]
    /\ UNCHANGED <<devOp, devPc, devArgs, devIn, devOut>>
    /\ UNCHANGED devOthers

\* the turn of the loop with len = 0: the last progress record, break
SourceEnds ==
    /\ devPc = "sending"
    /\ xfer.source = <<>>
    /\ xfer' = [xfer EXCEPT !.progress = Progress(@, devArgs.total_bytes, xfer.transferred)]
    /\ devPc' = "source_end"
    /\ UNCHANGED <<devOp, devArgs, devIn, devLog, devOut>>
    /\ UNCHANGED devOthers

---------------------------------------------------------------------------
(* SpecPush: pushes of bounded sources to a few destinations               *)

MaxMissing == 2
MaxShortReads == 1

\* the remote paths of the transfers:
\* /sdcard/f, /sdcard/d/f, /data/data/app/d/f, /data/data/appx/f
RemotePaths ==
    { << B(<<115, 100, 99, 97, 114, 100>>), B(<<102>>) >>,
      << B(<<115, 100, 99, 97, 114, 100>>), B(<<100>>), B(<<102>>) >>,
      << B(<<100, 97, 116, 97>>), B(<<100, 97, 116, 97>>), B(<<97, 112, 112>>), B(<<100>>), B(<<102>>) >>,
      << B(<<100, 97, 116, 97>>), B(<<100, 97, 116, 97>>), B(<<97, 112, 112, 120>>), B(<<102>>) >> }

\* self.run_as_package
Packages == { <<>>, << B(<<97, 112, 112>>) >> }

\* the source content: nothing, a few bytes, a buffer, two buffers and two
\* bytes
Sources ==
    { <<>>, B(<<97, 98>>), Fill(120, PushBufLen),
      Cat(Fill(97, PushBufLen + 2), Fill(98, PushBufLen)) }

\* 0o777 and 0o644
Modes == { 511, 420 }

\* SystemTime::now() in seconds since the epoch, a u64 given by its 8 bytes,
\* least significant first: 1762421000 (in 2025) and 2^32 + 5
Clock == { <<8, 105, 12, 105, 0, 0, 0, 0>>, <<5, 0, 0, 0, 1, 0, 0, 0>> }

\* the status the server sends after DONE: OKAY and its unused length, FAIL
\* with a message (short, longer than the buffer, not UTF-8, cut short), a
\* word that is no status, nothing
StatusReplies ==
    { Cat(Okay, length_little_endian(0)),
      Flatten(<< Fail, length_little_endian(2), B(<<104, 105>>) >>),
      Flatten(<< Fail, length_little_endian(PushBufLen + 2), Fill(120, PushBufLen + 2) >>),
      Flatten(<< Fail, length_little_endian(2), B(<<255, 255>>) >>),
      Flatten(<< Fail, length_little_endian(5), B(<<104, 105>>) >>),
      Flatten(<< Data, length_little_endian(2), B(<<104, 105>>) >>),
      <<>> }

\* DONE and the modification time.  `time` is the wall clock & 0xFFFF_FFFF, the
\* 4 low-order bytes of the u64; write_length_little_endian writes the bytes
\* of `time as usize` least significant first, which are those 4 bytes.
WriteDone ==
    /\ devOp = "push"
    /\ devPc = "source_end"
    /\ \E now \in Clock :
        LET time == SubSeq(now, 1, 4)
        IN  devLog' = devLog \o << Event("write", Done), Event("write", B(time)) >>
    /\ devPc' = "done_written"
    /\ UNCHANGED <<devOp, devArgs, devIn, devOut, xfer>>
    /\ UNCHANGED devOthers

\* stream.read_exact(&mut buf[0..4]) and the branch on the status: OKAY ends
\* the push (after the copy out of the staging file under run-as), FAIL
\* carries a message (read after the staging file is removed), anything else
\* is unknown (reported after dest1 is removed)
ReadStatus ==
    /\ devOp = "push"
    /\ devPc = "done_written"
    /\ \E reply \in StatusReplies :
        LET status == read_exact(Cat(devIn, reply), 4)
        IN  /\ devIn' = status.rest
            /\ devLog' = Append(devLog, Event("read", Consumed(Cat(devIn, reply), status.rest)))
            /\ IF ~status.ok THEN Return(Err("Io", <<>>))
               ELSE IF status.bytes = Okay
                    THEN IF EnableRunAs THEN devPc' = "copy" /\ UNCHANGED devOut
                         ELSE Return(Ok(<<>>))
               ELSE IF status.bytes = Fail
                    THEN /\ devPc' = IF EnableRunAs THEN "remove_failed" ELSE "failure"
                         /\ UNCHANGED devOut
               ELSE devPc' = "remove_unknown" /\ UNCHANGED devOut
    /\ UNCHANGED <<devOp, devArgs, xfer>>
    /\ UNCHANGED devOthers

\* mutant of CopyStaged: a failed copy returns at once, the staging file stays
CopyStagedOrReturn ==
    /\ devPc = "copy"
    /\ devLog' = Append(devLog, PendingShell)
    /\ \E result \in { Ok(<<>>), Err("Io", <<>>) } :
        /\ xfer' = [xfer EXCEPT !.copy = result]
        /\ IF IsOk(result) THEN devPc' = "remove_copied" /\ UNCHANGED devOut
           ELSE Return(result)
    /\ UNCHANGED <<devOp, devArgs, devIn>>
    /\ UNCHANGED devOthers

\* cp -aR <dest1> <dest> under run-as; its result is kept until the staging
\* file is removed
CopyStaged ==
    /\ devPc = "copy"
    /\ devLog' = Append(devLog, PendingShell)
    /\ \E result \in { Ok(<<>>), Err("Io", <<>>) } : xfer' = [xfer EXCEPT !.copy = result]
    /\ devPc' = "remove_copied"
    /\ UNCHANGED <<devOp, devArgs, devIn, devOut>>
    /\ UNCHANGED devOthers

\* self.remove(dest1), whose failure is only a warning: after the copy
\* (`result?`, then Ok), before the FAIL message is read, and on an unknown
\* status
Remove ==
    /\ devPc \in { "remove_copied", "remove_failed", "remove_unknown" }
    /\ devLog' = Append(devLog, PendingShell)
    /\ CASE devPc = "remove_copied" -> Return(xfer.copy)
         [] devPc = "remove_failed" -> devPc' = "failure" /\ UNCHANGED devOut
         [] OTHER -> Return(Err("Adb", UnknownFailure))
    /\ UNCHANGED <<devOp, devArgs, devIn, xfer>>
    /\ UNCHANGED devOthers

\* the message of the FAIL status: at most a buffer of it
ReadFailure ==
    /\ devPc = "failure"
    /\ LET r == read_sync_failure(devIn, PushBufLen)
       IN  /\ devIn' = r.rest
           /\ devLog' = Append(devLog, Event("read", Consumed(devIn, r.rest)))
           /\ Return(r.res)
    /\ UNCHANGED <<devOp, devArgs, xfer>>
    /\ UNCHANGED devOthers

\* the total_bytes a caller of push_with_progress passes besides the length
\* of the source: any u64, here 0
PushTotals == { 0 }

\* Device::push(buffer, dest, mode) and push_with_progress(.., total_bytes, sender)
Push ==
    /\ devOp = "idle"
    /\ \E dest \in RemotePaths, package \in Packages, mode \in Modes, progress \in BOOLEAN,
          source \in Sources :
       \E existing \in { n \in 0..(Len(dest) - 1) : n >= Len(dest) - 1 - MaxMissing },
          short_reads \in 0..MaxShortReads,
          total_bytes \in IF progress THEN PushTotals \cup { BLen(source) } ELSE { 0 } :
        /\ devOp' = "push"
        /\ devPc' = "probe"
        /\ devArgs' = [ dest |-> dest, mode |-> mode, package |-> package,
                        progress |-> progress, total_bytes |-> total_bytes,
                        source |-> source, existing |-> existing ]
        /\ xfer' = [ source |-> source, short_reads |-> short_reads,
                     transferred |-> 0, last_progress |-> 0,
                     progress |-> IF progress
                                  THEN << [total_bytes |-> total_bytes, transferred_bytes |-> 0] >>
                                  ELSE <<>>,
                     current |-> parent(dest), leaf |-> <<>>, root |-> <<>>,
                     copy |-> Ok(<<>>) ]
    /\ UNCHANGED <<devIn, devLog, devOut>>
    /\ UNCHANGED devOthers

NextPush ==
    \/ Push \/ ProbeAncestor \/ PrepareAncestors \/ ShellFails
    \/ Connect \/ ConnectFails \/ IoFails
    \/ WriteTransport \/ ReadTransport \/ WriteSync \/ ReadSync
    \/ WriteSend \/ SendChunk \/ SourceEnds \/ WriteDone \/ ReadStatus
    \/ CopyStaged \/ Remove \/ ReadFailure

SpecPush == InitDevice /\ [][NextPush]_vars

---------------------------------------------------------------------------
(* Claims on push                                                          *)

\* the bytes of the events of one kind, in order
RECURSIVE LogBytes(_, _)
LogBytes(log, ev) ==
    IF log = <<>> THEN <<>>
    ELSE IF Len(log) = 1 THEN IF log[1].ev = ev THEN log[1].bytes ELSE <<>>
    ELSE LET half == Len(log) \div 2
         IN  Cat(LogBytes(SubSeq(log, 1, half), ev),
                 LogBytes(SubSeq(log, half + 1, Len(log)), ev))

\* the two requests that open a sync session, as written on the wire
SessionOpening ==
    Cat(encode_message(TransportCommand).val, encode_message(B(<<115, 121, 110, 99, 58>>)).val)

\* the sync session is open: both requests were acknowledged with OKAY
SessionOpen ==
    /\ devOp \in SyncOps
    /\ StartsWith(LogBytes(devLog, "read"), Cat(Okay, Okay))

\* what the client wrote inside the session, what the server sent inside it
\* (read already or not)
SessionWritten == Drop(LogBytes(devLog, "write"), BLen(SessionOpening))

SessionRead == Drop(LogBytes(devLog, "read"), 8)

\* the value of 4 bytes, least significant first
LittleEndianValue(b) == b[1] + 256 * b[2] + 65536 * b[3] + 16777216 * b[4]

\* The frames of the client side of a sync session: SEND and DATA carry a
\* length and as many bytes, DONE carries a time.  Bytes that are no whole
\* frame come out as a frame with code <<>>.
RECURSIVE ParseFrames(_)
ParseFrames(x) ==
    IF x = <<>> THEN <<>>
    ELSE IF BLen(x) < 8 THEN << [code |-> <<>>, arg |-> <<>>, payload |-> x] >>
    ELSE LET code == Take(x, 4)
             arg == Bytes(Take(Drop(x, 4), 4))
         IN  IF code = Done
             THEN << [code |-> code, arg |-> arg, payload |-> <<>>] >> \o ParseFrames(Drop(x, 8))
             ELSE IF code \notin { Send, Data } \/ BLen(x) < 8 + LittleEndianValue(arg)
                  THEN << [code |-> <<>>, arg |-> <<>>, payload |-> x] >>
             ELSE << [code |-> code, arg |-> arg,
                      payload |-> Take(Drop(x, 8), LittleEndianValue(arg))] >>
                  \o ParseFrames(Drop(x, 8 + LittleEndianValue(arg)))

\* the payloads of the DATA frames, concatenated
RECURSIVE DataPayloads(_)
DataPayloads(frames) ==
    IF frames = <<>> THEN <<>>
    ELSE IF frames[1].code = Data THEN Cat(frames[1].payload, DataPayloads(Tail(frames)))
    ELSE DataPayloads(Tail(frames))

\* C8: the bytes push writes inside the sync session are, in order: one SEND
\* header carrying "<path>,<mode>", then zero or more DATA frames each
\* carrying between 1 and 32768 payload bytes whose concatenation equals the
\* source content, then exactly one DONE with a 32-bit mtime; nothing is
\* written after DONE and the status is read only after DONE was written.
C8_PushFrames ==
    (devOp = "push" /\ SessionOpen) =>
        \A frames \in { ParseFrames(SessionWritten) } :
        \A sent \in { DataPayloads(frames) } :
            LET n == Len(frames)
                path == IF enable_run_as_for_path(devArgs.package, devArgs.dest)
                        THEN Tempfile ELSE devArgs.dest
                done == n > 0 /\ frames[n].code = Done
            IN  /\ n > 0 =>
                    /\ frames[1].code = Send
                    /\ frames[1].payload
                           = Cat(display(path), Cat(B(<<44>>), B(Decimal(devArgs.mode))))
                /\ \A i \in 2..n :
                    \/ /\ frames[i].code = Data
                       /\ BLen(frames[i].payload) \in 1..32768
                    \/ /\ frames[i].code = Done
                       /\ i = n
                       /\ Len(frames[i].arg) = 4
                /\ sent = Take(devArgs.source, BLen(sent))
                /\ done => sent = devArgs.source
                /\ SessionRead # <<>> => done
                /\ (devPc = "done" /\ IsOk(devOut)) => done

\* C8 witness: a push of a source of two full buffers and two bytes, read with
\* one short read, ended well after SEND, four DATA frames and DONE
C8_Witness ==
    /\ devOp = "push" /\ devPc = "done" /\ IsOk(devOut)
    /\ BLen(devArgs.source) = 2 * 32768 + 2
    /\ \E frames \in { ParseFrames(SessionWritten) } :
           /\ Len(frames) = 6
           /\ frames[1].code = Send
           /\ \E i \in 2..5 : BLen(frames[i].payload) < 32768 /\ BLen(frames[i + 1].payload) = 32768
           /\ frames[6].code = Done

\* what the server sent after the session was opened, read or not
SessionReply == Cat(SessionRead, devIn)

\* the length that follows the 4-byte code of a frame
FrameLength(x) == LittleEndianValue(Bytes(Take(Drop(x, 4), 4)))

\* the push wrote DONE and returned
PushReturned == devOp = "push" /\ devPc = "done" /\ SessionOpen

\* C9 as stated: push returns success only if the 4-byte status read after
\* DONE is OKAY; a FAIL status yields a protocol error carrying the server's
\* length-prefixed message, and any other status yields the protocol error
\* "FAIL (unknown)".
C9_PushStatus ==
    PushReturned =>
        LET reply == SessionReply
            status == Take(reply, 4)
        IN  /\ IsOk(devOut) => status = Okay
            /\ (status = Fail /\ BLen(reply) >= 8 /\ BLen(reply) >= 8 + FrameLength(reply)) =>
                   devOut = Err("Adb", Cat(AdbErrorPrefix,
                                           Take(Drop(reply, 8), FrameLength(reply))))
            /\ (BLen(status) = 4 /\ status \notin { Okay, Fail }) =>
                   devOut = Err("Adb", UnknownFailure)

\* C9, amended: push returns success only if the 4-byte status read after DONE
\* is OKAY; a FAIL status yields a protocol error carrying the first
\* min(length, 32768) bytes of the server's length-prefixed message when these
\* are UTF-8 and the text "adb error was not utf-8" when they are not (an I/O
\* error when the stream ends before them); any other status yields the
\* protocol error "FAIL (unknown)".
C9_PushStatusWithinBuffer ==
    PushReturned =>
        LET reply == SessionReply
            status == Take(reply, 4)
        IN  /\ IsOk(devOut) => status = Okay
            /\ status = Fail =>
                   IF BLen(reply) < 8 \/ BLen(reply) < 8 + Min(32768, FrameLength(reply))
                   THEN devOut = Err("Io", <<>>)
                   ELSE LET message == Take(Drop(reply, 8), Min(32768, FrameLength(reply)))
                        IN  devOut = Err("Adb", IF from_utf8_ok(message)
                                                THEN Cat(AdbErrorPrefix, message)
                                                ELSE NotUtf8Failure)
            /\ (BLen(status) = 4 /\ status \notin { Okay, Fail }) =>
                   devOut = Err("Adb", UnknownFailure)

\* C9 witness: the server answered DONE with FAIL and a message of 32770
\* bytes; push returned the protocol error with the first 32768 of them
C9_Witness ==
    /\ PushReturned
    /\ Take(SessionReply, 4) = Fail
    /\ FrameLength(SessionReply) = 32770
    /\ devOut = Err("Adb", Cat(AdbErrorPrefix, Fill(120, 32768)))

---------------------------------------------------------------------------
(* Device::pull                                                            *)

\* `let mut buf = [0; 64 * 1024]` of pull_internal
PullBufLen == 65536

\* "Send progress every 1M"
PullProgressStep == 1048576

MaxDataFrames == 2

\* a frame of the server in a sync session: code, length, bytes
Frame(code, n, bytes) == Flatten(<< code, length_little_endian(n), bytes >>)

\* what the server sends next after RECV: DATA with a payload (short, empty,
\* a buffer, more than a buffer, cut short), DONE, FAIL with a message longer
\* than the buffer, or one of the answers of StatusReplies
PullFrames ==
    { Frame(Data, 2, B(<<104, 105>>)),
      Frame(Data, 0, <<>>),
      Frame(Data, PullBufLen, Fill(120, PullBufLen)),
      Frame(Data, PullBufLen + 1, Fill(120, PullBufLen + 1)),
      Frame(Data, 5, B(<<104, 105>>)),
      Frame(Done, 0, <<>>),
      Frame(Fail, PullBufLen + 2, Fill(120, PullBufLen + 2)) } \cup StatusReplies

\* RECV, the length of the path, and the path
WriteRecv ==
    /\ devOp = "pull"
    /\ devPc = "sync_ready"
    /\ LET args == display(devArgs.src)
       IN  devLog' = devLog \o << Event("write", Recv),
                                  Event("write", length_little_endian(BLen(args))),
                                  Event("write", args) >>
    /\ devPc' = "receiving"
    /\ UNCHANGED <<devOp, devArgs, devIn, devOut, xfer>>
    /\ UNCHANGED devOthers

\* mutant of ReceiveData: the payload is written to the sink only when it
\* fills the buffer
ReceiveDataFullOnly(bytes) ==
    LET transferred == xfer.transferred + BLen(bytes)
        report == transferred - xfer.last_progress >= PullProgressStep
    IN  /\ xfer' = [xfer EXCEPT
               !.sink = IF BLen(bytes) = PullBufLen THEN Cat(@, bytes) ELSE @,
               !.frames = @ + 1,
               !.transferred = transferred,
               !.progress = IF report THEN Progress(@, devArgs.total_bytes, transferred) ELSE @,
               !.last_progress = IF devArgs.progress /\ report THEN transferred ELSE @]
        /\ UNCHANGED <<devPc, devOut>>

\* the DATA branch once its payload was read: buffer.write_all(&buf[0..len]),
\* and a progress record once 1 MiB came in since the last one
ReceiveData(bytes) ==
    LET transferred == xfer.transferred + BLen(bytes)
        report == transferred - xfer.last_progress >= PullProgressStep
    IN  /\ xfer' = [xfer EXCEPT
               !.sink = Cat(@, bytes),
               !.frames = @ + 1,
               !.transferred = transferred,
               !.progress = IF report THEN Progress(@, devArgs.total_bytes, transferred) ELSE @,
               !.last_progress = IF devArgs.progress /\ report THEN transferred ELSE @]
        /\ UNCHANGED <<devPc, devOut>>

\* one turn of the loop: the 4-byte code, then DATA (a length above the buffer
\* makes &mut buf[0..len] panic), DONE (the last progress record), FAIL (the
\* message, at most a buffer of it) or anything else
ReadFrame ==
    /\ devOp = "pull"
    /\ devPc = "receiving"
    /\ \E frame \in { f \in devArgs.frames :
                        StartsWith(f, Data) => xfer.frames < devArgs.data_frames } :
        LET stream == Cat(devIn, frame)
            code == read_exact(stream, 4)
            len == read_length_little_endian(code.rest)
            payload == read_exact(len.rest, len.res.val)
            failure == read_sync_failure(code.rest, PullBufLen)
            rest == IF ~code.ok THEN code.rest
                    ELSE IF code.bytes = Data
                         THEN IF ~IsOk(len.res) \/ len.res.val > PullBufLen THEN len.rest
                              ELSE payload.rest
                    ELSE IF code.bytes = Fail THEN failure.rest
                    ELSE code.rest
        IN  /\ devIn' = rest
            /\ devLog' = Append(devLog, Event("read", Consumed(stream, rest)))
            /\ IF ~code.ok THEN Return(Err("Io", <<>>)) /\ UNCHANGED xfer
               ELSE IF code.bytes = Data
                    THEN IF ~IsOk(len.res) THEN Return(len.res) /\ UNCHANGED xfer
                         ELSE IF len.res.val > PullBufLen
                              THEN Return(Err("Panic", <<>>)) /\ UNCHANGED xfer
                         ELSE IF ~payload.ok THEN Return(Err("Io", <<>>)) /\ UNCHANGED xfer
                         ELSE ReceiveData(payload.bytes)
               ELSE IF code.bytes = Done
                    THEN /\ xfer' = [xfer EXCEPT !.progress =
                                        Progress(@, devArgs.total_bytes, xfer.transferred)]
                         /\ Return(Ok(<<>>))
               ELSE IF code.bytes = Fail THEN Return(failure.res) /\ UNCHANGED xfer
               ELSE Return(Err("Adb", UnknownFailure)) /\ UNCHANGED xfer
    /\ UNCHANGED <<devOp, devArgs>>
    /\ UNCHANGED devOthers

\* the size pull_with_progress passes as total_bytes
PullTotals == { 0, 2 }

\* Device::pull(src, buffer), and the pull_internal call of
\* pull_with_progress with the total_bytes it took from stat
Pull ==
    /\ devOp = "idle"
    /\ \E src \in RemotePaths, progress \in BOOLEAN, total_bytes \in PullTotals :
        /\ devOp' = "pull"
        /\ devPc' = "connect"
        /\ devArgs' = [ src |-> src, progress |-> progress, total_bytes |-> total_bytes,
                        frames |-> PullFrames, data_frames |-> MaxDataFrames ]
        /\ xfer' = [ sink |-> <<>>, frames |-> 0,
                     transferred |-> 0, last_progress |-> 0,
                     progress |-> IF progress
                                  THEN << [total_bytes |-> total_bytes, transferred_bytes |-> 0] >>
                                  ELSE <<>> ]
    /\ UNCHANGED <<devIn, devLog, devOut>>
    /\ UNCHANGED devOthers

NextPull ==
    \/ Pull
    \/ Connect \/ ConnectFails \/ IoFails
    \/ WriteTransport \/ ReadTransport \/ WriteSync \/ ReadSync
    \/ WriteRecv \/ ReadFrame

SpecPull == InitDevice /\ [][NextPull]_vars

---------------------------------------------------------------------------
(* Claims on pull                                                          *)

\* the pull returned after the session was opened
PullReturned == devOp = "pull" /\ devPc = "done" /\ SessionOpen

\* C10: on a successful pull the sink has received exactly the concatenation
\* of the payloads of all DATA frames in arrival order, for any sequence of
\* DATA frames followed by DONE; a FAIL frame makes pull return the server's
\* error instead of success (a protocol error with the first 65536 bytes of
\* the message, or "adb error was not utf-8"; an I/O error when the stream
\* ends inside the frame).
C10_PullSink ==
    PullReturned =>
        \A frames \in { ParseFrames(SessionRead) } :
            LET n == Len(frames)
                last == frames[n].payload
            IN  /\ IsOk(devOut) =>
                    /\ n > 0
                    /\ frames[n].code = <<>> /\ last = Done
                    /\ \A i \in 1..(n - 1) : frames[i].code = Data
                    /\ xfer.sink = DataPayloads(frames)
                /\ (n > 0 /\ frames[n].code = <<>> /\ StartsWith(last, Fail)) =>
                    LET reply == Cat(last, devIn)
                    IN  IF BLen(reply) < 8 \/ BLen(reply) < 8 + Min(65536, FrameLength(reply))
                        THEN devOut = Err("Io", <<>>)
                        ELSE LET message == Take(Drop(reply, 8), Min(65536, FrameLength(reply)))
                             IN  devOut = Err("Adb", IF from_utf8_ok(message)
                                                     THEN Cat(AdbErrorPrefix, message)
                                                     ELSE NotUtf8Failure)

\* C10 witness: a pull that succeeded after two DATA frames, one of 2 bytes
\* and one of 65536, and DONE; the sink holds the 65538 bytes
C10_Witness ==
    /\ PullReturned
    /\ IsOk(devOut)
    /\ xfer.frames = 2
    /\ xfer.sink = Cat(B(<<104, 105>>), Fill(120, 65536))

---------------------------------------------------------------------------
(* SpecSession: every operation on a device                                *)

NextSession == NextDevice \/ NextPush \/ NextPull

SpecSession == InitDevice /\ [][NextSession]_vars

\* host:transport:<serial> as it goes on the wire
TransportMessage == encode_message(TransportCommand).val

\* the i-th event is a write that follows, on its connection, the write of
\* host:transport:<serial> and the read of its OKAY
OnSelectedTransport(i) ==
    \E c \in 1..(i - 3) :
        /\ devLog[c].ev = "connect"
        /\ devLog[c + 1] = Event("write", TransportMessage)
        /\ devLog[c + 2] = Event("read", Okay)

\* every write of the operation other than host:transport itself is made on
\* the selected transport
CommandsOnSelectedTransport ==
    \A i \in 1..Len(devLog) :
        (devLog[i].ev = "write" /\ devLog[i].bytes # TransportMessage) => OnSelectedTransport(i)

\* C7 as stated: in every device-scoped operation, the device command is
\* written only on a connection on which host:transport:<serial> was written
\* first and its OKAY acknowledgement was read; if the transport reply is not
\* OKAY the command is never written.
C7_TransportFirst == CommandsOnSelectedTransport

\* C7, amended: in every device-scoped operation but forward_port, the device
\* command is written only on a connection on which host:transport:<serial>
\* was written first and its OKAY acknowledgement was read, and never if the
\* transport reply is not OKAY; forward_port writes its
\* host-serial:<serial>:forward request as the first message of its
\* connection and never writes host:transport.
C7_TransportFirstButForward ==
    /\ devOp \notin HostOps => CommandsOnSelectedTransport
    /\ devOp \in HostOps =>
           \A i \in 1..Len(devLog) :
               devLog[i].ev = "write" =>
                   /\ i = 2
                   /\ devLog[1].ev = "connect"
                   /\ devLog[i].bytes = encode_message(devArgs.command).val
                   /\ devLog[i].bytes # TransportMessage

\* C7 witness: exec_out wrote its exec: command as the fourth event, after
\* connect, host:transport and OKAY
C7_Witness ==
    /\ devOp = "exec_out"
    /\ devPc = "command_written"
    /\ Len(devLog) = 4
    /\ devLog[4] = Event("write", encode_message(devArgs.command).val)
    /\ OnSelectedTransport(4)

---------------------------------------------------------------------------
(* Claims on the staging file of a push under run-as                       *)

\* the shell commands the operation issued so far, in order
ShellEvents == SelectSeq(devLog, LAMBDA e : e.ev = "shell")

\* format!("cp -aR {} {}", dest1.display(), dest.display()) and the command
\* of remove(dest1), for the staging file
CopyCommand ==
    Flatten(<< B(<<99, 112, 32, 45, 97, 82, 32>>), display(Tempfile), B(<<32>>), display(devArgs.dest) >>)

RemoveStagingCommand == Cat(B(<<114, 109, 32, 45, 114, 102, 32>>), display(Tempfile))

\* the place in devLog of the first event with these bytes (0 when none)
FirstEvent(ev, bytes) ==
    LET at == { i \in 1..Len(devLog) : devLog[i].ev = ev /\ devLog[i].bytes = bytes }
    IN  IF at = {} THEN 0 ELSE CHOOSE i \in at : \A j \in at : i <= j

\* C11: when run-as applies to a push, the SEND header names the staging path
\* and never the destination; after the OKAY status `cp -aR <staging>
\* <destination>` is issued under run-as, then `rm -rf <staging>` is issued
\* whether the copy succeeded or failed, in that order, and the push returns
\* the result of the copy.
C11_RunAsStaging ==
    (devOp = "push" /\ EnableRunAs) =>
        \A frames \in { IF SessionOpen THEN ParseFrames(SessionWritten) ELSE <<>> } :
        \A shells \in { ShellEvents } :
        \A send \in { FirstEvent("write", Send) }, copy \in { FirstEvent("shell", CopyCommand) },
           remove \in { FirstEvent("shell", RemoveStagingCommand) } :
            /\ frames # <<>> =>
                /\ frames[1].code = Send
                /\ frames[1].payload
                       = Flatten(<< display(Tempfile), B(<<44>>), B(Decimal(devArgs.mode)) >>)
                /\ ~StartsWith(frames[1].payload, display(devArgs.dest))
            /\ copy > 0 =>
                /\ devLog[copy].run_as
                /\ 0 < send /\ send < copy
                /\ SessionRead = Okay
                /\ devLog[copy - 1].ev = "read"
                /\ remove = 0 => (copy = Len(devLog) /\ devPc = "remove_copied")
            /\ (remove > 0 /\ SessionRead = Okay) =>
                /\ copy > 0 /\ remove = copy + 1 /\ remove = Len(devLog)
                /\ devPc = "done"
                /\ devOut = xfer.copy
            /\ (devPc = "done" /\ SessionOpen /\ SessionRead = Okay) =>
                /\ copy > 0 /\ remove = copy + 1
                /\ Len(shells) >= 2
                /\ shells[Len(shells)] = devLog[remove]

\* C11 witness: a push to /data/data/app/d/f under run-as whose copy out of
\* the staging file failed; the staging file was removed all the same and the
\* push returned the error of the copy
C11_Witness ==
    /\ devOp = "push" /\ devPc = "done" /\ EnableRunAs
    /\ SessionRead = Okay
    /\ ~IsOk(xfer.copy) /\ devOut = xfer.copy
    /\ Len(devLog) >= 2
    /\ devLog[Len(devLog) - 1] = ShellEvent(CopyCommand, TRUE)
    /\ devLog[Len(devLog)] = ShellEvent(RemoveStagingCommand, FALSE)

---------------------------------------------------------------------------
(* SpecRunAs: Device::enable_run_as_for_path on bounded paths              *)

\* the longest path, in components
MaxPathLen == 4

\* the names the paths are made of
PathNames == { B(<<100, 97, 116, 97>>), B(<<97, 112, 112>>), B(<<97, 112, 112, 120>>), B(<<102>>) }

\* every absolute path of up to MaxPathLen of these names, "/" included
Paths == SeqsUpTo(PathNames, MaxPathLen)

\* self.run_as_package: none, or one of the names
RunAsPackages == { <<>> } \cup { << name >> : name \in PathNames \ { B(<<102>>) } }

\* Device::enable_run_as_for_path(path) on a device with this run_as_package
EnableRunAsForPath ==
    /\ devOp = "idle"
    /\ \E package \in RunAsPackages, path \in Paths :
        /\ devOp' = "enable_run_as_for_path"
        /\ devPc' = "done"
        /\ devArgs' = [package |-> package, path |-> path]
        /\ devOut' = Ok(enable_run_as_for_path(package, path))
    /\ UNCHANGED <<devIn, devLog, xfer>>
    /\ UNCHANGED devOthers

NextRunAs == EnableRunAsForPath

SpecRunAs == InitDevice /\ [][NextRunAs]_vars

\* path `inner` is `outer` or lies below it, component by component
Under(inner, outer) ==
    /\ Len(outer) <= Len(inner)
    /\ \A i \in 1..Len(outer) : inner[i] = outer[i]

\* C12: enable_run_as_for_path(p) depends on the configured package and on p
\* only: it is true exactly when a run_as_package is configured and p lies
\* under /data/data/<run_as_package>, component by component (so that
\* /data/data/<package>X/... does not qualify), and false for every path when
\* no package is configured.
C12_RunAsGate ==
    devOp = "enable_run_as_for_path" =>
        \A package \in { devArgs.package }, path \in { devArgs.path } :
            /\ devOut = Ok(/\ package # <<>>
                           /\ Under(path, << B(<<100, 97, 116, 97>>), B(<<100, 97, 116, 97>>), package[1] >>))
            /\ package = <<>> => devOut = Ok(FALSE)
            /\ ( /\ package # <<>>
                 /\ Len(path) >= 3
                 /\ path[3] # package[1]
                 /\ StartsWith(path[3], package[1]) ) => devOut = Ok(FALSE)

\* C12 witness: with the package app configured, /data/data/appx/f was
\* refused
C12_Witness ==
    /\ devOp = "enable_run_as_for_path"
    /\ devArgs.package = << B(<<97, 112, 112>>) >>
    /\ devArgs.path = << B(<<100, 97, 116, 97>>), B(<<100, 97, 116, 97>>), B(<<97, 112, 112, 120>>), B(<<102>>) >>
    /\ devOut = Ok(FALSE)

---------------------------------------------------------------------------
(* Claims on the progress records of a push                                *)

\* C14 as stated: every file-progress record emitted during a push satisfies
\* transferred_bytes <= total_bytes, for every source stream and every
\* total_bytes passed to push_with_progress.
C14_ProgressWithinTotal ==
    devOp = "push" =>
        \A i \in 1..Len(xfer.progress) :
            xfer.progress[i].transferred_bytes <= xfer.progress[i].total_bytes

\* what holds instead: each record carries the caller's total_bytes as given
\* and the number of source bytes written so far, which stays within
\* total_bytes when total_bytes is at least the length of the source
C14_ProgressWithinSource ==
    devOp = "push" =>
        \A i \in 1..Len(xfer.progress) :
            /\ xfer.progress[i].total_bytes = devArgs.total_bytes
            /\ xfer.progress[i].transferred_bytes <= BLen(devArgs.source)
            /\ devArgs.total_bytes >= BLen(devArgs.source) =>
                   xfer.progress[i].transferred_bytes <= xfer.progress[i].total_bytes

---------------------------------------------------------------------------
(* Device::push_dir and pull_dir: the transfer task and the aggregators    *)
(*                                                                         *)
(* The task of push_dir_internal walks the files; for each it sends a      *)
(* record on the directory channel, spawns an aggregator that turns the    *)
(* records of the file's channel into records of the directory channel,    *)
(* and runs push_internal, which sends on the file's channel.  A file is   *)
(* given by its length, and the source is read in whole buffers.  xfer     *)
(* holds the locals of the task, the file channels (what was sent, how     *)
(* much of it the aggregator received, the transferred_bytes the           *)
(* aggregator captured) and what was sent on the directory channel.        *)

\* the most files under the source directory
MaxFiles == 2

\* the directory transfers; pull_dir runs pull_internal on each file where
\* push_dir runs push_internal
DirOps == { "push_dir", "pull_dir" }

\* the most bytes one turn of the file transfer's loop moves (the buffer of
\* push_internal, a DATA frame that fills the buffer of pull_internal), and
\* the bytes between two intermediate records of the file
DirBufLen == IF devOp = "pull_dir" THEN PullBufLen ELSE PushBufLen

DirProgressStep == IF devOp = "pull_dir" THEN PullProgressStep ELSE PushProgressStep

\* the lengths of the files: empty, two bytes, 4 MiB and a buffer
FileSizes == { 0, 2, PushProgressStep + PushBufLen }

\* the files WalkDir yields, in order
FileLists == SeqsUpTo(FileSizes, MaxFiles)

RECURSIVE Sum(_)
Sum(s) == IF s = <<>> THEN 0 ELSE s[1] + Sum(Tail(s))

\* DirectoryTransferProgress, without the names
DirectoryProgress(transferred_files, transferred_bytes, file_progress) ==
    [ total_files |-> devArgs.total_files, transferred_files |-> transferred_files,
      total_bytes |-> devArgs.total_bytes, transferred_bytes |-> transferred_bytes,
      current_file_progress |-> file_progress ]

FileProgress(total, transferred) == [total_bytes |-> total, transferred_bytes |-> transferred]

\* sender.send(..) on the channel of the current file, when there is one
SendFileProgress(chans, transferred) ==
    IF devArgs.progress
    THEN [chans EXCEPT ![xfer.file].sent =
              Append(@, FileProgress(devArgs.files[xfer.file], transferred))]
    ELSE chans

\* push_dir / push_dir_with_progress: the totals, the first record
PushDir ==
    /\ devOp = "idle"
    /\ \E files \in FileLists, progress \in BOOLEAN :
        /\ devOp' = "push_dir"
        /\ devPc' = "next_file"
        /\ devArgs' = [ files |-> files, progress |-> progress,
                        total_files |-> Len(files), total_bytes |-> Sum(files) ]
        /\ xfer' = [ file |-> 0, remaining |-> 0, transferred |-> 0, last_progress |-> 0,
                     transferred_files |-> 0, transferred_bytes |-> 0,
                     chans |-> <<>>,
                     dir |-> IF progress
                             THEN << [ total_files |-> Len(files), transferred_files |-> 0,
                                       total_bytes |-> Sum(files), transferred_bytes |-> 0,
                                       current_file_progress |-> FileProgress(0, 0) ] >>
                             ELSE <<>> ]
    /\ UNCHANGED <<devIn, devLog, devOut>>
    /\ UNCHANGED devOthers

\* the next file of the walk: the record naming it, the aggregator spawned
\* with the counters as they are now, and the first record of push_internal
DirNextFile ==
    /\ devOp \in DirOps
    /\ devPc = "next_file"
    /\ xfer.file < Len(devArgs.files)
    /\ LET file_size == devArgs.files[xfer.file + 1]
       IN  xfer' = [xfer EXCEPT
               !.file = @ + 1,
               !.remaining = file_size,
               !.transferred = 0,
               !.last_progress = 0,
               !.dir = IF devArgs.progress
                       THEN Append(@, DirectoryProgress(xfer.transferred_files, xfer.transferred_bytes,
                                                        FileProgress(file_size, 0)))
                       ELSE @,
               !.chans = Append(@, [ sent |-> IF devArgs.progress
                                              THEN << FileProgress(file_size, 0) >> ELSE <<>>,
                                     received |-> 0,
                                     open |-> devArgs.progress,
                                     running |-> devArgs.progress,
                                     transferred_files |-> xfer.transferred_files,
                                     transferred_bytes |-> xfer.transferred_bytes ])]
    /\ devPc' = "pushing"
    /\ UNCHANGED <<devOp, devArgs, devIn, devLog, devOut>>
    /\ UNCHANGED devOthers

\* one turn of the loop of push_internal with len > 0
DirPushChunk ==
    /\ devOp \in DirOps
    /\ devPc = "pushing"
    /\ xfer.remaining > 0
    /\ LET len == Min(DirBufLen, xfer.remaining)
           transferred == xfer.transferred + len
           report == devArgs.progress /\ transferred - xfer.last_progress >= DirProgressStep
       IN  xfer' = [xfer EXCEPT
               !.remaining = @ - len,
               !.transferred = transferred,
               !.chans = IF report THEN SendFileProgress(@, transferred) ELSE @,
               !.last_progress = IF report THEN transferred ELSE @]
    /\ UNCHANGED <<devOp, devPc, devArgs, devIn, devLog, devOut>>
    /\ UNCHANGED devOthers

\* the turn with len = 0: the last record of the file
DirPushEnds ==
    /\ devOp \in DirOps
    /\ devPc = "pushing"
    /\ xfer.remaining = 0
    /\ xfer' = [xfer EXCEPT !.chans = SendFileProgress(@, xfer.transferred)]
    /\ devPc' = "status"
    /\ UNCHANGED <<devOp, devArgs, devIn, devLog, devOut>>
    /\ UNCHANGED devOthers

\* push_internal returned Ok: its sender is dropped, the counters move on
DirPushReturns ==
    /\ devOp \in DirOps
    /\ devPc = "status"
    /\ xfer' = [xfer EXCEPT
           !.chans[xfer.file].open = FALSE,
           !.transferred_files = @ + 1,
           !.transferred_bytes = @ + devArgs.files[xfer.file]]
    /\ devPc' = "next_file"
    /\ UNCHANGED <<devOp, devArgs, devIn, devLog, devOut>>
    /\ UNCHANGED devOthers

\* push_internal returned an error: `?`
DirPushFails ==
    /\ devOp \in DirOps
    /\ devPc \in { "pushing", "status" }
    /\ xfer' = [xfer EXCEPT !.chans[xfer.file].open = FALSE]
    /\ Return(Err("Io", <<>>))
    /\ UNCHANGED <<devOp, devArgs, devIn, devLog>>
    /\ UNCHANGED devOthers

\* the walk is over
DirFinish ==
    /\ devOp \in DirOps
    /\ devPc = "next_file"
    /\ xfer.file = Len(devArgs.files)
    /\ Return(Ok(<<>>))
    /\ UNCHANGED <<devOp, devArgs, devIn, devLog, xfer>>
    /\ UNCHANGED devOthers

\* mutant of AggregateFile: the aggregator reads the counter of the transfer
\* task where it has a copy made when it was spawned
AggregateFileSharedCounter(k) ==
    /\ devOp \in DirOps
    /\ k \in 1..Len(xfer.chans)
    /\ xfer.chans[k].running
    /\ xfer.chans[k].received < Len(xfer.chans[k].sent)
    /\ LET chan == xfer.chans[k]
           file_progress == chan.sent[chan.received + 1]
       IN  xfer' = [xfer EXCEPT
               !.chans[k].received = @ + 1,
               !.dir = Append(@, DirectoryProgress(chan.transferred_files,
                                     xfer.transferred_bytes + file_progress.transferred_bytes,
                                     file_progress))]
    /\ UNCHANGED <<devOp, devPc, devArgs, devIn, devLog, devOut>>
    /\ UNCHANGED devOthers

\* the aggregator spawned for file k receives the next record of its file
\* (`while let Some(file_progress) = receiver.recv().await`) and sends a
\* record on the directory channel, with the counters it captured
AggregateFile(k) ==
    /\ devOp \in DirOps
    /\ k \in 1..Len(xfer.chans)
    /\ xfer.chans[k].running
    /\ xfer.chans[k].received < Len(xfer.chans[k].sent)
    /\ LET chan == xfer.chans[k]
           file_progress == chan.sent[chan.received + 1]
       IN  xfer' = [xfer EXCEPT
               !.chans[k].received = @ + 1,
               !.dir = Append(@, DirectoryProgress(chan.transferred_files,
                                     chan.transferred_bytes + file_progress.transferred_bytes,
                                     file_progress))]
    /\ UNCHANGED <<devOp, devPc, devArgs, devIn, devLog, devOut>>
    /\ UNCHANGED devOthers

Aggregate == \E k \in 1..MaxFiles : AggregateFile(k)

\* mutant of AggregatorEndsFile: the task ends when the sender is dropped,
\* whatever is left in the channel
AggregatorEndsFileAtClose(k) ==
    /\ devOp \in DirOps
    /\ k \in 1..Len(xfer.chans)
    /\ xfer.chans[k].running
    /\ ~xfer.chans[k].open
    /\ xfer' = [xfer EXCEPT !.chans[k].running = FALSE]
    /\ UNCHANGED <<devOp, devPc, devArgs, devIn, devLog, devOut>>
    /\ UNCHANGED devOthers

\* recv() returns None, the loop and the task of the aggregator of file k end:
\* the sender was dropped and every record was received
AggregatorEndsFile(k) ==
    /\ devOp \in DirOps
    /\ k \in 1..Len(xfer.chans)
    /\ xfer.chans[k].running
    /\ ~xfer.chans[k].open
    /\ xfer.chans[k].received = Len(xfer.chans[k].sent)
    /\ xfer' = [xfer EXCEPT !.chans[k].running = FALSE]
    /\ UNCHANGED <<devOp, devPc, devArgs, devIn, devLog, devOut>>
    /\ UNCHANGED devOthers

AggregatorEnds == \E k \in 1..MaxFiles : AggregatorEndsFile(k)

NextPushDir ==
    \/ PushDir \/ DirNextFile \/ DirPushChunk \/ DirPushEnds
    \/ DirPushReturns \/ DirPushFails \/ DirFinish \/ Aggregate \/ AggregatorEnds

SpecPushDir == InitDevice /\ [][NextPushDir]_vars

\* the sizes of the files listed: empty, two bytes, 1 MiB and a buffer
ListedSizes == { 0, 2, PullProgressStep + PullBufLen }

\* pull_dir / pull_dir_with_progress: list_dir for the totals, the first
\* record, list_dir again for the walk; `files` are the sizes of the regular
\* files listed, and `lists` how many of the two list_dir calls succeed
PullDir ==
    /\ devOp = "idle"
    /\ \E files \in SeqsUpTo(ListedSizes, MaxFiles), progress \in BOOLEAN, lists \in 0..2 :
        /\ devOp' = "pull_dir"
        /\ devArgs' = [ files |-> files, progress |-> progress,
                        total_files |-> Len(files), total_bytes |-> Sum(files) ]
        /\ xfer' = [ file |-> 0, remaining |-> 0, transferred |-> 0, last_progress |-> 0,
                     transferred_files |-> 0, transferred_bytes |-> 0,
                     chans |-> <<>>,
                     dir |-> IF progress /\ lists >= 1
                             THEN << [ total_files |-> Len(files), transferred_files |-> 0,
                                       total_bytes |-> Sum(files), transferred_bytes |-> 0,
                                       current_file_progress |-> FileProgress(0, 0) ] >>
                             ELSE <<>> ]
        /\ IF lists = 2 THEN devPc' = "next_file" /\ UNCHANGED devOut
           ELSE Return(Err("Adb", UnknownFailure))
    /\ UNCHANGED <<devIn, devLog>>
    /\ UNCHANGED devOthers

NextDir == NextPushDir \/ PullDir

SpecDir == InitDevice /\ [][NextDir]_vars

\* the scheduler of the runtime runs every spawned aggregator task that has a
\* record to receive or a closed channel to find empty
SpecDirFair ==
    /\ SpecDir
    /\ \A k \in 1..MaxFiles : WF_vars(AggregateFile(k)) /\ WF_vars(AggregatorEndsFile(k))

\* the records of a channel come in non-decreasing transferred_bytes order
Ordered(records) ==
    \A i \in 1..(Len(records) - 1) :
        records[i].transferred_bytes <= records[i + 1].transferred_bytes

\* C13 as stated: on every progress channel (the per-file channel of a push
\* and the directory channel of push_dir), the records are received in
\* non-decreasing transferred_bytes order, under every interleaving of the
\* transfer task and the spawned aggregator tasks.
C13_ProgressOrdered ==
    devOp = "push_dir" =>
        /\ \A k \in 1..Len(xfer.chans) : Ordered(xfer.chans[k].sent)
        /\ Ordered(xfer.dir)

\* what holds: the records of each file channel are ordered
C13_FileProgressOrdered ==
    devOp = "push_dir" =>
        \A k \in 1..Len(xfer.chans) : Ordered(xfer.chans[k].sent)

---------------------------------------------------------------------------
(* Device::list_dir                                                        *)
(*                                                                         *)
(* The walk root is [abs, names]: whether the path begins with "/", and    *)
(* its components.  The remote tree maps each directory, given by its      *)
(* names below the root, to the entries the server lists for it.           *)

\* enum UnixFileStatus: the file types, as the bits of st_mode under 0xF000
Directory == 16384
CharacterDevice == 8192
BlockDevice == 24576
RegularFile == 32768
SymbolicLink == 40960
Socket == 49152

List == B(<<76, 73, 83, 84>>)
Dent == B(<<68, 69, 78, 84>>)

\* `let mut buf = [0; 64 * 1024]` of list_dir_flat
ListBufLen == 65536

\* format!("{}", src.display()) of a path that may be relative
display_path(path) ==
    IF path.abs THEN display(path.names)
    ELSE IF path.names = <<>> THEN <<>>
    ELSE Drop(display(path.names), 1)

\* the pieces of a text between its '/'
RECURSIVE split_slash(_, _)
split_slash(bytes, piece) ==
    IF bytes = <<>> THEN << piece >>
    ELSE IF bytes[1] = 47 THEN << piece >> \o split_slash(Tail(bytes), <<>>)
    ELSE split_slash(Tail(bytes), Append(piece, bytes[1]))

\* the components of a relative path given as text: the names between its
\* '/', the empty ones left out
components(text) ==
    LET pieces == SelectSeq(split_slash(Bytes(text), <<>>), LAMBDA piece : piece # <<>>)
    IN  [i \in 1..Len(pieces) |-> B(pieces[i])]

\* UnixPathBuf::push(text) of a text that does not begin with '/'
push_path(path, text) == [path EXCEPT !.names = @ \o components(text)]

FileMetadata(path, file_mode, size, time, depth) ==
    [ path |-> path, file_mode |-> file_mode, size |-> size,
      modified_time |-> time, depth |-> depth ]

\* format!("Invalid file mode {}", file_type)
InvalidFileMode(file_type) == Cat(B(<<73, 110, 118, 97, 108, 105, 100, 32, 102, 105, 108, 101, 32, 109, 111, 100, 101, 32>>), B(Decimal(file_type)))

\* mutant of dent_metadata: the name is returned without the prefix
dent_metadata_bare_name(mode, size, time, name, depth, prefix) ==
    LET file_type == (mode \div 8192) % 8
    IN  CASE file_type = 2 -> Ok(FileMetadata(name, "Directory", 0, <<time>>, <<depth>>))
          [] file_type = 4 -> Ok(FileMetadata(name, "RegularFile", size, <<time>>, <<depth>>))
          [] file_type = 5 -> Ok(FileMetadata(name, "SymbolicLink", 0, <<time>>, <<depth>>))
          [] OTHER -> Err("Adb", InvalidFileMode(file_type))

\* the FileMetadata of one DENT of list_dir_flat: the name behind the prefix,
\* the type from (mode >> 13) & 0b111
dent_metadata(mode, size, time, name, depth, prefix) ==
    LET file_type == (mode \div 8192) % 8
        path == IF prefix # <<>> THEN Flatten(<< prefix, B(<<47>>), name >>) ELSE name
    IN  CASE file_type = 2 -> Ok(FileMetadata(path, "Directory", 0, <<time>>, <<depth>>))
          [] file_type = 4 -> Ok(FileMetadata(path, "RegularFile", size, <<time>>, <<depth>>))
          [] file_type = 5 -> Ok(FileMetadata(path, "SymbolicLink", 0, <<time>>, <<depth>>))
          [] OTHER -> Err("Adb", InvalidFileMode(file_type))

\* mutant of skip_dent: no entry is left out
skip_no_dent(name) == FALSE

\* `if name == "." || name == ".." { continue; }`
skip_dent(name) == name \in { B(<<46>>), B(<<46, 46>>) }

\* The loop of list_dir_flat on the bytes the server sends after LIST: the
\* listings of the DENT frames up to DONE, or the first error.
RECURSIVE read_dents(_, _, _)

\* listings.push(metadata), then the frames that follow
listed(metadata, more) ==
    IF IsOk(more.res) THEN [res |-> Ok(<< metadata >> \o more.res.val), rest |-> more.rest]
    ELSE more

dent_entry(metadata, rest, depth, prefix) ==
    IF ~IsOk(metadata) THEN [res |-> metadata, rest |-> rest]
    ELSE listed(metadata.val, read_dents(rest, depth, prefix))

dent_named(mode, size, time, name, rest, depth, prefix) ==
    IF ~from_utf8_ok(name) THEN [res |-> Err("Utf8", <<>>), rest |-> rest]
    ELSE IF skip_dent(name) THEN read_dents(rest, depth, prefix)
    ELSE dent_entry(dent_metadata(mode, size, time, name, depth, prefix), rest, depth, prefix)

\* one DENT: mode, size, time and name_length as read_length_little_endian
\* returned them, then the name (a name longer than the buffer makes the
\* slice panic)
read_dent(mode, size, time, name_length, depth, prefix) ==
    IF ~IsOk(name_length.res) THEN [res |-> Err("Io", <<>>), rest |-> <<>>]
    ELSE IF name_length.res.val > ListBufLen
         THEN [res |-> Err("Panic", <<>>), rest |-> name_length.rest]
    ELSE IF BLen(name_length.rest) < name_length.res.val
         THEN [res |-> Err("Io", <<>>), rest |-> <<>>]
    ELSE dent_named(mode.res.val, size.res.val, time.res.val,
                    Take(name_length.rest, name_length.res.val),
                    Drop(name_length.rest, name_length.res.val), depth, prefix)

read_dents(stream, depth, prefix) ==
    IF BLen(stream) < 4 THEN [res |-> Err("Io", <<>>), rest |-> <<>>]
    ELSE IF Take(stream, 4) = Dent
         THEN read_dent(read_length_little_endian(Drop(stream, 4)),
                        read_length_little_endian(Drop(stream, 8)),
                        read_length_little_endian(Drop(stream, 12)),
                        read_length_little_endian(Drop(stream, 16)), depth, prefix)
    ELSE IF Take(stream, 4) = Done THEN [res |-> Ok(<<>>), rest |-> Drop(stream, 4)]
    ELSE IF Take(stream, 4) = Fail THEN read_sync_failure(Drop(stream, 4), ListBufLen)
    ELSE [res |-> Err("Adb", UnknownFailure), rest |-> Drop(stream, 4)]

\* the entries of the remote tree: [name, mode, size, time]
Entry(name, mode, size, time) == [name |-> name, mode |-> mode, size |-> size, time |-> time]

\* st_mode of a directory (0o40755), a file (0o100644), a symbolic link
\* (0o120777) and a named pipe (0o10644)
DirMode == Directory + 493
FileMode == RegularFile + 420
LinkMode == SymbolicLink + 511
PipeMode == (Directory \div 4) + 420

SubDir(name) == Entry(name, DirMode, 4096, 1700000000)

\* the remote trees: an empty directory; files, a link and directories two
\* levels deep; three directories, the last one empty; a tree with a named
\* pipe in it
Trees ==
    { ( <<>> :> <<>> ),
      ( <<>> :> << Entry(B(<<97>>), FileMode, 5, 1700000001), SubDir(B(<<100>>)) >>
        @@ << B(<<100>>) >> :> << Entry(B(<<97>>), FileMode, 7, 0), SubDir(B(<<100>>)),
                                Entry(B(<<108>>), LinkMode, 9, 1700000002) >>
        @@ << B(<<100>>), B(<<100>>) >> :> << Entry(B(<<98>>), FileMode, 0, 1700000003) >> ),
      ( <<>> :> << SubDir(B(<<97>>)), Entry(B(<<102>>), FileMode, 65536, 1700000004), SubDir(B(<<98>>)) >>
        @@ << B(<<97>>) >> :> << Entry(B(<<102>>), FileMode, 2, 1700000005) >>
        @@ << B(<<98>>) >> :> << SubDir(B(<<97>>)) >>
        @@ << B(<<98>>), B(<<97>>) >> :> <<>> ),
      ( <<>> :> << SubDir(B(<<100>>)), Entry(B(<<97>>), FileMode, 5, 1700000001) >>
        @@ << B(<<100>>) >> :> << Entry(B(<<112>>), PipeMode, 0, 1700000006) >> ) }

\* the walk roots: /sdcard, / and the relative path d
ListRoots ==
    { [abs |-> TRUE, names |-> << B(<<115, 100, 99, 97, 114, 100>>) >>],
      [abs |-> TRUE, names |-> <<>>],
      [abs |-> FALSE, names |-> << B(<<100>>) >>] }

\* what the server sends for a directory: "." and "..", then its entries, one
\* DENT each, then DONE and the 16 bytes of its empty fields
DentFrame(e) ==
    Flatten(<< Dent, length_little_endian(e.mode), length_little_endian(e.size),
               length_little_endian(e.time), length_little_endian(BLen(e.name)), e.name >>)

Listing(entries) ==
    Flatten([i \in 1..Len(entries) |-> DentFrame(entries[i])]) 

ListReply(entries) ==
    Flatten(<< Listing(<< SubDir(B(<<46>>)), SubDir(B(<<46, 46>>)) >>), Listing(entries), Done, Fill(0, 16) >>)

\* the directory of the tree the last request names (none: the server lists
\* nothing)
ListedEntries ==
    LET asked == devLog[Len(devLog)].bytes
        dirs == { dir \in DOMAIN devArgs.tree :
                      display_path([devArgs.src EXCEPT !.names = @ \o dir]) = asked }
    IN  IF dirs = {} THEN <<>> ELSE devArgs.tree[CHOOSE dir \in dirs : TRUE]

\* the answers of the server to LIST: the listing, the listing cut before
\* DONE, a failure, the listing ended by a frame that has no place in it,
\* the listing ended by an entry whose name is longer than the buffer
ListReplies ==
    { ListReply(ListedEntries),
      Listing(ListedEntries),
      Flatten(<< Fail, length_little_endian(2), B(<<104, 105>>) >>),
      Cat(Listing(ListedEntries), Frame(Data, 2, B(<<104, 105>>))),
      Cat(Listing(ListedEntries),
          DentFrame(Entry(Fill(120, ListBufLen + 1), FileMode, 0, 1700000007))) }

\* Device::list_dir(src): the queue holds the walk root
ListDir ==
    /\ devOp = "idle"
    /\ \E src \in ListRoots, tree \in Trees :
        /\ devOp' = "list_dir"
        /\ devPc' = "pop"
        /\ devArgs' = [src |-> src, tree |-> tree]
        /\ xfer' = [ queue |-> << [next |-> src, depth |-> 0, prefix |-> <<>>] >>,
                     listings |-> <<>> ]
    /\ UNCHANGED <<devIn, devLog, devOut>>
    /\ UNCHANGED devOthers

\* `while let Some((next, depth, prefix)) = queue.pop()`: the last element,
\* for list_dir_flat on a connection of its own; Ok(listings) when none is left
ListPop ==
    /\ devOp = "list_dir"
    /\ devPc = "pop"
    /\ IF xfer.queue = <<>>
       THEN /\ Return(Ok(xfer.listings))
            /\ UNCHANGED <<devIn, xfer>>
       ELSE /\ devPc' = "connect"
            /\ devIn' = <<>>
            /\ UNCHANGED devOut
            /\ xfer' = xfer
    /\ UNCHANGED <<devOp, devArgs, devLog>>
    /\ UNCHANGED devOthers

\* LIST, the length of the path, the path
WriteList ==
    /\ devOp = "list_dir"
    /\ devPc = "sync_ready"
    /\ LET args == display_path(xfer.queue[Len(xfer.queue)].next)
       IN  devLog' = devLog \o << Event("write", List),
                                  Event("write", length_little_endian(BLen(args))),
                                  Event("write", args) >>
    /\ devPc' = "listing"
    /\ UNCHANGED <<devOp, devArgs, devIn, devOut, xfer>>
    /\ UNCHANGED devOthers

\* mutant of Children: symbolic links are queued as directories are
ChildrenAndLinks(entries, depth) ==
    LET dirs == SelectSeq(entries,
                          LAMBDA listing : listing.file_mode \in { "Directory", "SymbolicLink" })
    IN  [ i \in 1..Len(dirs) |-> [ next |-> push_path(devArgs.src, dirs[i].path),
                                   depth |-> depth + 1,
                                   prefix |-> dirs[i].path ] ]

\* mutant of Children: the directories are queued with the depth of their
\* parent
ChildrenSameDepth(entries, depth) ==
    LET dirs == SelectSeq(entries, LAMBDA listing : listing.file_mode = "Directory")
    IN  [ i \in 1..Len(dirs) |-> [ next |-> push_path(devArgs.src, dirs[i].path),
                                   depth |-> depth,
                                   prefix |-> dirs[i].path ] ]

\* the directories among the listings, as queue elements: (src + path,
\* depth + 1, path)
Children(entries, depth) ==
    LET dirs == SelectSeq(entries, LAMBDA listing : listing.file_mode = "Directory")
    IN  [ i \in 1..Len(dirs) |-> [ next |-> push_path(devArgs.src, dirs[i].path),
                                   depth |-> depth + 1,
                                   prefix |-> dirs[i].path ] ]

\* the rest of list_dir_flat and the body of the loop of list_dir: the
\* listings are read to DONE; each directory is queued, each listing kept
ReadDents ==
    /\ devOp = "list_dir"
    /\ devPc = "listing"
    /\ \E reply \in ListReplies :
        LET top == xfer.queue[Len(xfer.queue)]
            r == read_dents(Cat(devIn, reply), top.depth, top.prefix)
        IN  /\ devIn' = r.rest
            /\ devLog' = Append(devLog, Event("read", Consumed(Cat(devIn, reply), r.rest)))
            /\ IF IsOk(r.res)
               THEN /\ xfer' = [ queue |-> SubSeq(xfer.queue, 1, Len(xfer.queue) - 1)
                                           \o Children(r.res.val, top.depth),
                                 listings |-> xfer.listings \o r.res.val ]
                    /\ devPc' = "pop"
                    /\ UNCHANGED devOut
               ELSE /\ Return(r.res)
                    /\ UNCHANGED xfer
    /\ UNCHANGED <<devOp, devArgs>>
    /\ UNCHANGED devOthers

NextList ==
    \/ ListDir \/ ListPop
    \/ Connect \/ ConnectFails \/ IoFails
    \/ WriteTransport \/ ReadTransport \/ WriteSync \/ ReadSync
    \/ WriteList \/ ReadDents

SpecList == InitDevice /\ [][NextList]_vars

\* list_dir is polled until it returns, and the server answers every request
\* the walk has not returned; it then has a step to take
ListWalking == devOp = "list_dir" /\ devPc # "done"

\* weak fairness of NextList, its enabling condition written out
SpecListFair == SpecList /\ ([]<>(~ListWalking) \/ []<><<NextList>>_vars)

---------------------------------------------------------------------------
(* Claims on list_dir                                                      *)

\* the files, directories and links of a tree, each with the names that lead
\* to it from the root and the type its mode gives it
TreeNodes(tree) ==
    UNION { { [ names |-> Append(dir, tree[dir][i].name),
                type |-> (tree[dir][i].mode \div 4096) % 16 ] : i \in 1..Len(tree[dir]) }
            : dir \in DOMAIN tree }

\* the names joined with '/'
Join(names) == IF names = <<>> THEN <<>> ELSE Drop(display(names), 1)

\* list_dir returned its listings
Listed == devOp = "list_dir" /\ devPc = "done" /\ IsOk(devOut)

\* C15: recursive list_dir over a remote tree with f files and d directories
\* (and l symbolic links) returns exactly f + d (+ l) entries, one per file,
\* directory or link and none twice, and no returned entry is named . or ..
C15_ListDirEntries ==
    devOp = "list_dir" =>
        \A result \in { IF Listed THEN devOut.val ELSE xfer.listings },
           nodes \in { TreeNodes(devArgs.tree) } :
            /\ Listed => Len(result) = Cardinality(nodes)
            /\ Listed =>
                   Len(result) = Cardinality({ node \in nodes : node.type = 8 })
                             + Cardinality({ node \in nodes : node.type = 4 })
                             + Cardinality({ node \in nodes : node.type = 10 })
            /\ \A i, j \in 1..Len(result) : result[i].path = result[j].path => i = j
            /\ Listed => \A node \in nodes :
                   \E i \in 1..Len(result) :
                       /\ result[i].path = Join(node.names)
                       /\ result[i].file_mode = CASE node.type = 8 -> "RegularFile"
                                                  [] node.type = 4 -> "Directory"
                                                  [] OTHER -> "SymbolicLink"
            /\ \A i \in 1..Len(result) :
                   \A names \in { components(result[i].path) } :
                       names[Len(names)] \notin { B(<<46>>), B(<<46, 46>>) }

\* C15 witness: the tree of 2 files and 3 directories under /sdcard was
\* listed with 5 entries
C15_Witness ==
    /\ Listed
    /\ devArgs.src = [abs |-> TRUE, names |-> << B(<<115, 100, 99, 97, 114, 100>>) >>]
    /\ Cardinality(DOMAIN devArgs.tree) = 4
    /\ Len(devOut.val) = 5
    /\ Cardinality({ i \in 1..5 : devOut.val[i].file_mode = "Directory" }) = 3
    /\ Cardinality({ i \in 1..5 : devOut.val[i].file_mode = "RegularFile" }) = 2

\* the entry of the parent directory of listing i, if it has one
ParentEntries(listings, i) ==
    { j \in 1..Len(listings) :
          Append(components(listings[j].path), components(listings[i].path)[Len(components(listings[i].path))])
              = components(listings[i].path) }

\* C16: in list_dir's listings the direct children of the walk root have
\* depth 0 and every other entry's depth is exactly one more than the depth
\* of the entry of its parent directory, so depth never decreases along a
\* root-to-leaf path.
C16_DepthFromParent ==
    devOp = "list_dir" =>
        \A listings \in { IF Listed THEN devOut.val ELSE xfer.listings } :
        \A i \in 1..Len(listings) :
            /\ Len(listings[i].depth) = 1
            /\ Len(components(listings[i].path)) = 1 => listings[i].depth = << 0 >>
            /\ Len(components(listings[i].path)) > 1 =>
                   /\ ParentEntries(listings, i) # {}
                   /\ \A j \in ParentEntries(listings, i) :
                          /\ listings[j].file_mode = "Directory"
                          /\ listings[i].depth[1] = listings[j].depth[1] + 1
                          /\ listings[j].depth[1] <= listings[i].depth[1]

\* C16 witness: d/d/b was listed with depth 2, below d/d of depth 1 and d of
\* depth 0
C16_Witness ==
    /\ Listed
    /\ \E i, j, k \in 1..Len(devOut.val) :
           /\ devOut.val[i].path = B(<<100, 47, 100, 47, 98>>) /\ devOut.val[i].depth = << 2 >>
           /\ devOut.val[j].path = B(<<100, 47, 100>>) /\ devOut.val[j].depth = << 1 >>
           /\ devOut.val[k].path = B(<<100>>) /\ devOut.val[k].depth = << 0 >>

\* UnixPath::starts_with: the text, taken as a path, begins with the
\* components of the root (and is absolute or relative as the root is)
PathStartsWith(text, root) ==
    /\ StartsWith(text, B(<<47>>)) <=> root.abs
    /\ Under(components(text), root.names)

\* every listing is named by the names that lead to it from the walk root,
\* joined with '/', and carries the depth of the directory it was listed in
NamedFromRoot(listings) ==
    \A i \in 1..Len(listings) :
        \E node \in TreeNodes(devArgs.tree) :
            /\ listings[i].path = Join(node.names)
            /\ listings[i].path
                   = IF Len(node.names) = 1 THEN node.names[1]
                     ELSE Flatten(<< Join(SubSeq(node.names, 1, Len(node.names) - 1)),
                                     B(<<47>>), node.names[Len(node.names)] >>)
            /\ listings[i].depth = << Len(node.names) - 1 >>

\* C17 as stated: every path returned by list_dir is relative to the walk
\* root: it is the '/'-joined sequence of names from the root to the entry,
\* built as prefix + "/" + name (just name when the prefix is empty) with the
\* depth passed by the caller, and it never starts with the root path itself.
C17_PathsRelative ==
    devOp = "list_dir" =>
        \A listings \in { IF Listed THEN devOut.val ELSE xfer.listings } :
            /\ NamedFromRoot(listings)
            /\ \A i \in 1..Len(listings) : ~PathStartsWith(listings[i].path, devArgs.src)

\* C17, amended: every path returned by list_dir is the '/'-joined sequence
\* of names from the walk root to the entry, built as prefix + "/" + name
\* (just name when the prefix is empty) with the depth passed by the caller;
\* it never begins with '/', so it never starts with an absolute root path.
C17_PathsRelativeNoSlash ==
    devOp = "list_dir" =>
        \A listings \in { IF Listed THEN devOut.val ELSE xfer.listings } :
            /\ NamedFromRoot(listings)
            /\ \A i \in 1..Len(listings) :
                   /\ ~StartsWith(listings[i].path, B(<<47>>))
                   /\ devArgs.src.abs => ~PathStartsWith(listings[i].path, devArgs.src)

\* C17 witness: under /sdcard the file b of the directory d/d was returned as
\* d/d/b, which does not start with /sdcard
C17_Witness ==
    /\ Listed
    /\ devArgs.src = [abs |-> TRUE, names |-> << B(<<115, 100, 99, 97, 114, 100>>) >>]
    /\ \E i \in 1..Len(devOut.val) :
           /\ devOut.val[i].path = B(<<100, 47, 100, 47, 98>>)
           /\ devOut.val[i].file_mode = "RegularFile"
           /\ ~PathStartsWith(devOut.val[i].path, devArgs.src)

---------------------------------------------------------------------------
(* Device::stat                                                            *)

Stat == B(<<83, 84, 65, 84>>)

\* "adb: stat failed: No such file or directory"
StatFailed == B(<<97, 100, 98, 58, 32, 115, 116, 97, 116, 32, 102, 97, 105, 108, 101, 100, 58, 32, 78, 111, 32, 115, 117, 99, 104, 32, 102, 105, 108, 101, 32, 111, 114, 32, 100, 105, 114, 101, 99, 116, 111, 114, 121>>)

\* format!("{:?}", std::str::from_utf8(&response_code)) of 4 ASCII letters
InvalidResponseCode(code) ==
    Flatten(<< B(<< 73, 110, 118, 97, 108, 105, 100, 32, 114, 101, 115, 112, 111, 110, 115, 101, 32, 99, 111, 100, 101, 58, 32, 79, 107, 40, 34 >>), code, B(<< 34, 41 >>) >>)

\* one digit of format!("{:x}")
LowerHexDigit(d) == IF d < 10 THEN Ascii0 + d ELSE AsciiLowerA + (d - 10)

\* the digits of a number without its leading zeros (one 0 is kept)
RECURSIVE StripZeros(_)
StripZeros(digits) ==
    IF Len(digits) > 1 /\ digits[1] = Ascii0 THEN StripZeros(Tail(digits)) ELSE digits

\* format!("Unknown file mode: {:#x}", mode), mode given by its 4 bytes, least
\* significant first
UnknownFileMode(mode) ==
    Flatten(<< B(<<85, 110, 107, 110, 111, 119, 110, 32, 102, 105, 108, 101, 32, 109, 111, 100, 101, 58, 32, 48, 120>>),
               B(StripZeros([ i \in 1..8 |->
                     LET byte == mode[4 - ((i - 1) \div 2)]
                     IN  LowerHexDigit(IF i % 2 = 1 THEN byte \div 16 ELSE byte % 16) ])) >>)

\* mutant of stat_metadata: mode 0 is looked up like any other mode
stat_metadata_any_mode(path, mode, size, time) ==
    LET file_type == (mode[2] \div 16) * 4096
        modified_time == IF time = 0 THEN <<>> ELSE << time >>
    IN  CASE file_type = Directory -> Ok(FileMetadata(path, "Directory", size, modified_time, <<>>))
          [] file_type = CharacterDevice -> Ok(FileMetadata(path, "CharacterDevice", size, modified_time, <<>>))
          [] file_type = BlockDevice -> Ok(FileMetadata(path, "BlockDevice", size, modified_time, <<>>))
          [] file_type = RegularFile -> Ok(FileMetadata(path, "RegularFile", size, modified_time, <<>>))
          [] file_type = SymbolicLink -> Ok(FileMetadata(path, "SymbolicLink", size, modified_time, <<>>))
          [] file_type = Socket -> Ok(FileMetadata(path, "Socket", size, modified_time, <<>>))
          [] OTHER -> Err("Adb", UnknownFileMode(mode))

\* The result of stat from the 12 bytes that follow STAT.  mode is a u32
\* given by its 4 bytes, least significant first: it is 0 when all are 0, and
\* mode & 0xF000 is the high half of its second byte.
stat_metadata(path, mode, size, time) ==
    LET file_type == (mode[2] \div 16) * 4096
        modified_time == IF time = 0 THEN <<>> ELSE << time >>
    IN  CASE mode = << 0, 0, 0, 0 >> -> Err("Adb", StatFailed)
          [] file_type = Directory -> Ok(FileMetadata(path, "Directory", size, modified_time, <<>>))
          [] file_type = CharacterDevice -> Ok(FileMetadata(path, "CharacterDevice", size, modified_time, <<>>))
          [] file_type = BlockDevice -> Ok(FileMetadata(path, "BlockDevice", size, modified_time, <<>>))
          [] file_type = RegularFile -> Ok(FileMetadata(path, "RegularFile", size, modified_time, <<>>))
          [] file_type = SymbolicLink -> Ok(FileMetadata(path, "SymbolicLink", size, modified_time, <<>>))
          [] file_type = Socket -> Ok(FileMetadata(path, "Socket", size, modified_time, <<>>))
          [] OTHER -> Err("Adb", UnknownFileMode(mode))

\* mutant of read_stat: a code that is not STAT is reported as the other sync
\* operations report it
read_stat_fail_unknown(stream, path) ==
    IF BLen(stream) < 4 THEN [res |-> Err("Io", <<>>), rest |-> <<>>]
    ELSE IF Take(stream, 4) # Stat
         THEN [res |-> Err("Adb", UnknownFailure), rest |-> Drop(stream, 4)]
    ELSE IF BLen(stream) < 16 THEN [res |-> Err("Io", <<>>), rest |-> <<>>]
    ELSE [ res |-> stat_metadata(path, Bytes(Take(Drop(stream, 4), 4)),
                                 LittleEndianValue(Bytes(Take(Drop(stream, 8), 4))),
                                 LittleEndianValue(Bytes(Take(Drop(stream, 12), 4)))),
           rest |-> Drop(stream, 16) ]

\* what stat does with the bytes the server sends after STAT <path>
read_stat(stream, path) ==
    IF BLen(stream) < 4 THEN [res |-> Err("Io", <<>>), rest |-> <<>>]
    ELSE IF Take(stream, 4) # Stat
         THEN [res |-> Err("Adb", InvalidResponseCode(Take(stream, 4))), rest |-> Drop(stream, 4)]
    ELSE IF BLen(stream) < 16 THEN [res |-> Err("Io", <<>>), rest |-> <<>>]
    ELSE [ res |-> stat_metadata(path, Bytes(Take(Drop(stream, 4), 4)),
                                 LittleEndianValue(Bytes(Take(Drop(stream, 8), 4))),
                                 LittleEndianValue(Bytes(Take(Drop(stream, 12), 4)))),
           rest |-> Drop(stream, 16) ]

\* the answer of the server to STAT: the code and mode, size and time
StatReply(mode, size, time) ==
    Flatten(<< Stat, B(mode), length_little_endian(size), length_little_endian(time) >>)

\* the modes of the answers, by their 4 bytes: no file; a directory, a
\* character device, a block device, a file, a link, a socket; a named pipe;
\* permissions without a type; 0x10000; a directory with bits above 0xFFFF
StatModes ==
    { << 0, 0, 0, 0 >>,
      << 237, 65, 0, 0 >>, << 176, 33, 0, 0 >>, << 176, 97, 0, 0 >>,
      << 164, 129, 0, 0 >>, << 255, 161, 0, 0 >>, << 255, 193, 0, 0 >>,
      << 164, 17, 0, 0 >>,
      << 164, 1, 0, 0 >>,
      << 0, 0, 1, 0 >>,
      << 237, 65, 1, 128 >> }

\* the size and the time of the answers
StatSizes == { 0, 4096 }

StatTimes == { 0, 1700000000 }

\* the answers to STAT: a STAT frame, one cut short, a FAIL frame, a DATA
\* frame, nothing
StatReplies ==
    { StatReply(mode, size, time) : mode \in StatModes, size \in StatSizes, time \in StatTimes }
    \cup { Cat(Stat, B(<< 237, 65, 0, 0, 0 >>)),
           Flatten(<< Fail, length_little_endian(2), B(<<104, 105>>) >>),
           Frame(Data, 2, B(<<104, 105>>)),
           <<>> }

\* Device::stat(path)
StatPath ==
    /\ devOp = "idle"
    /\ \E path \in RemotePaths :
        /\ devOp' = "stat"
        /\ devPc' = "connect"
        /\ devArgs' = [path |-> path]
    /\ UNCHANGED <<devIn, devLog, devOut, xfer>>
    /\ UNCHANGED devOthers

\* STAT, the length of the path, the path
WriteStat ==
    /\ devOp = "stat"
    /\ devPc = "sync_ready"
    /\ devLog' = devLog \o << Event("write", Stat),
                              Event("write", length_little_endian(BLen(display(devArgs.path)))),
                              Event("write", display(devArgs.path)) >>
    /\ devPc' = "stat_written"
    /\ UNCHANGED <<devOp, devArgs, devIn, devOut, xfer>>
    /\ UNCHANGED devOthers

\* the response code, the 12 bytes, the result
ReadStat ==
    /\ devOp = "stat"
    /\ devPc = "stat_written"
    /\ \E reply \in StatReplies :
        LET r == read_stat(Cat(devIn, reply), display(devArgs.path))
        IN  /\ devIn' = r.rest
            /\ devLog' = Append(devLog, Event("read", Consumed(Cat(devIn, reply), r.rest)))
            /\ Return(r.res)
    /\ UNCHANGED <<devOp, devArgs, xfer>>
    /\ UNCHANGED devOthers

NextStat ==
    \/ StatPath
    \/ Connect \/ ConnectFails \/ IoFails
    \/ WriteTransport \/ ReadTransport \/ WriteSync \/ ReadSync
    \/ WriteStat \/ ReadStat

SpecStat == InitDevice /\ [][NextStat]_vars

\* list_dir and stat, the two sources of FileMetadata
NextMetadata == NextList \/ NextStat

SpecMetadata == InitDevice /\ [][NextMetadata]_vars

---------------------------------------------------------------------------
(* Claims on FileMetadata and stat                                         *)

\* stat returned its metadata
StatOk == devOp = "stat" /\ devPc = "done" /\ IsOk(devOut)

\* C18 as stated: every FileMetadata the library returns for a directory or a
\* symbolic link has size 0, whether it comes from list_dir, list_dir_flat or
\* stat.
C18_DirAndLinkSizeZero ==
    /\ devOp = "list_dir" =>
           \A listings \in { IF Listed THEN devOut.val ELSE xfer.listings } :
           \A i \in 1..Len(listings) :
               listings[i].file_mode \in { "Directory", "SymbolicLink" } => listings[i].size = 0
    /\ StatOk =>
           (devOut.val.file_mode \in { "Directory", "SymbolicLink" } => devOut.val.size = 0)

\* what holds: the listings of list_dir and list_dir_flat have size 0 for
\* directories and links, and stat returns the size the server sent
C18_ListedSizeZero ==
    /\ devOp = "list_dir" =>
           \A listings \in { IF Listed THEN devOut.val ELSE xfer.listings } :
           \A i \in 1..Len(listings) :
               listings[i].file_mode \in { "Directory", "SymbolicLink" } => listings[i].size = 0
    /\ StatOk =>
           devOut.val.size = LittleEndianValue(Bytes(Take(Drop(SessionRead, 8), 4)))

\* text holds needle somewhere
Contains(text, needle) ==
    \E k \in 0..(BLen(text) - BLen(needle)) : Take(Drop(text, k), BLen(needle)) = needle

\* stat read a whole STAT answer and returned
StatAnswered ==
    /\ devOp = "stat" /\ devPc = "done" /\ SessionOpen
    /\ BLen(SessionRead) = 16
    /\ Take(SessionRead, 4) = Stat

\* C19: stat fails with a protocol error containing "No such file or
\* directory" when the STAT reply carries mode 0; otherwise it returns the
\* file type selected by mode & 0xF000 (0x4000 Directory, 0x2000
\* CharacterDevice, 0x6000 BlockDevice, 0x8000 RegularFile, 0xA000
\* SymbolicLink, 0xC000 Socket) with depth unset, and a protocol error for
\* every other value.
C19_StatFileType ==
    StatAnswered =>
        \A mode \in { Bytes(Take(Drop(SessionRead, 4), 4)) } :
        \A type \in { mode[2] \div 16 } :
            IF mode = << 0, 0, 0, 0 >>
            THEN /\ devOut.kind = "Adb"
                 /\ Contains(devOut.val, B(<<78, 111, 32, 115, 117, 99, 104, 32, 102, 105, 108, 101, 32, 111, 114, 32, 100, 105, 114, 101, 99, 116, 111, 114, 121>>))
            ELSE IF type \in { 4, 2, 6, 8, 10, 12 }
            THEN /\ IsOk(devOut)
                 /\ devOut.val.file_mode = CASE type = 4 -> "Directory"
                                             [] type = 2 -> "CharacterDevice"
                                             [] type = 6 -> "BlockDevice"
                                             [] type = 8 -> "RegularFile"
                                             [] type = 10 -> "SymbolicLink"
                                             [] OTHER -> "Socket"
                 /\ devOut.val.depth = <<>>
                 /\ devOut.val.path = display(devArgs.path)
            ELSE /\ devOut.kind = "Adb"
                 /\ ~Contains(devOut.val, B(<<78, 111, 32, 115, 117, 99, 104, 32, 102, 105, 108, 101, 32, 111, 114, 32, 100, 105, 114, 101, 99, 116, 111, 114, 121>>))

\* C19 witness: the server answered STAT with mode 0 and stat returned the
\* protocol error "adb: stat failed: No such file or directory"
C19_Witness ==
    /\ StatAnswered
    /\ Bytes(Take(Drop(SessionRead, 4), 4)) = << 0, 0, 0, 0 >>
    /\ devOut = Err("Adb", StatFailed)

---------------------------------------------------------------------------
(* Host::devices and Host::device_or_default                               *)

\* char::is_whitespace, of the ASCII characters: tab, LF, VT, FF, CR, space
Whitespace == { 9, 10, 11, 12, 13, 32 }

\* the n-th smallest of a set of numbers
Nth(S, n) == CHOOSE x \in S : Cardinality({ y \in S : y < x }) = n - 1

\* where the pieces of text between separators start
PieceStarts(text, seps) ==
    { i \in 1..Len(text) : text[i] \notin seps /\ (i = 1 \/ text[i - 1] \in seps) }

\* where the piece that starts at i ends
PieceEnd(text, seps, i) ==
    CHOOSE j \in i..Len(text) :
        /\ \A k \in i..j : text[k] \notin seps
        /\ j = Len(text) \/ text[j + 1] \in seps

\* str::split_whitespace: the non-empty pieces between whitespace
split_whitespace(text) ==
    [ n \in 1..Cardinality(PieceStarts(text, Whitespace)) |->
        SubSeq(text, Nth(PieceStarts(text, Whitespace), n),
               PieceEnd(text, Whitespace, Nth(PieceStarts(text, Whitespace), n))) ]

\* where the lines of text start: at 1 and after every LF but a last one
LineStarts(text) ==
    { i \in 1..Len(text) : i = 1 \/ text[i - 1] = 10 }

\* the line that starts at i, without its LF or CR LF
LineAt(text, i) ==
    LET ends == { j \in i..Len(text) : text[j] = 10 }
        end == IF ends = {} THEN Len(text)
               ELSE LET lf == CHOOSE j \in ends : \A k \in ends : j <= k
                    IN  IF lf > i /\ text[lf - 1] = 13 THEN lf - 2 ELSE lf - 1
    IN  SubSeq(text, i, end)

\* str::lines
lines(text) ==
    [ n \in 1..Cardinality(LineStarts(text)) |-> LineAt(text, Nth(LineStarts(text), n)) ]

\* impl From<&str> for DeviceState
DeviceState(s) ==
    CASE B(s) = B(<<111, 102, 102, 108, 105, 110, 101>>) -> "Offline"
      [] B(s) = B(<<98, 111, 111, 116, 108, 111, 97, 100, 101, 114>>) -> "Bootloader"
      [] B(s) = B(<<100, 101, 118, 105, 99, 101>>) -> "Device"
      [] B(s) = B(<<104, 111, 115, 116>>) -> "Host"
      [] B(s) = B(<<114, 101, 99, 111, 118, 101, 114, 121>>) -> "Recovery"
      [] B(s) = B(<<110, 111, 32, 112, 101, 114, 109, 105, 115, 115, 105, 111, 110, 115>>) -> "NoPermissions"
      [] B(s) = B(<<115, 105, 100, 101, 108, 111, 97, 100>>) -> "Sideload"
      [] B(s) = B(<<117, 110, 97, 117, 116, 104, 111, 114, 105, 122, 101, 100>>) -> "Unauthorized"
      [] B(s) = B(<<97, 117, 116, 104, 111, 114, 105, 122, 105, 110, 103>>) -> "Authorizing"
      [] OTHER -> "Unknown"

\* the key:value pairs of a line, as a BTreeMap: a pair is a token with
\* exactly one ':', and a later pair replaces an earlier one with its key
device_pairs(tokens) ==
    LET colons(i) == { k \in 1..Len(tokens[i]) : tokens[i][k] = 58 }
        valid == { i \in 3..Len(tokens) : Cardinality(colons(i)) = 1 }
        key(i) == SubSeq(tokens[i], 1, (CHOOSE k \in colons(i) : TRUE) - 1)
        value(i) == SubSeq(tokens[i], (CHOOSE k \in colons(i) : TRUE) + 1, Len(tokens[i]))
    IN  [ k \in { key(i) : i \in valid } |->
            value(CHOOSE i \in valid : key(i) = k /\ \A j \in valid : key(j) = k => j <= i) ]

\* fn parse_device_info(line: &str) -> Option<DeviceInfo>
parse_device_info(line) ==
    LET pairs == split_whitespace(line)
    IN  IF Len(pairs) < 2 THEN <<>>
        ELSE << [ serial |-> B(pairs[1]),
                  state |-> DeviceState(pairs[2]),
                  info |-> device_pairs(pairs) ] >>

\* the elements of a sequence of Options that are Some
RECURSIVE Somes(_)
Somes(options) ==
    IF options = <<>> THEN <<>> ELSE options[1] \o Somes(Tail(options))

\* Host::devices, of the response to host:devices-l
devices(response) ==
    Somes([ n \in 1..Len(lines(response)) |-> parse_device_info(lines(response)[n]) ])

\* .filter(|d| d.state == state)
RECURSIVE in_state(_, _)
in_state(infos, state) ==
    IF infos = <<>> THEN <<>>
    ELSE (IF infos[1].state = state THEN << infos[1] >> ELSE <<>>) \o in_state(Tail(infos), state)

\* AndroidStorageInput, and the AndroidStorage Device::new makes of it
StorageInputs == { "App", "Internal", "Sdcard", "Auto" }

\* mutant of new_device: the staging path does not depend on the uuid
new_device_one_path(serial, info, storage, uuid) ==
    Ok([ serial |-> serial,
         info |-> info,
         run_as_package |-> <<>>,
         storage |-> IF storage = "Auto" THEN "Sdcard" ELSE storage,
         tempfile |-> Tempfile ])

\* Device::new(host, serial, info, storage), uuid being the text of
\* Uuid::new_v4().as_hyphenated()
new_device(serial, info, storage, uuid) ==
    Ok([ serial |-> serial,
         info |-> info,
         run_as_package |-> <<>>,
         storage |-> IF storage = "Auto" THEN "Sdcard" ELSE storage,
         tempfile |-> SubSeq(Tempfile, 1, 3) \o << uuid >> ])

\* Device::new for the one session of an operation, its uuid written "uuid"
NewDevice(serial, info, storage) == new_device(serial, info, storage, Tempfile[4])

NoDevicesOnline == B(<<78, 111, 32, 65, 110, 100, 114, 111, 105, 100, 32, 100, 101, 118, 105, 99, 101, 115, 32, 97, 114, 101, 32, 111, 110, 108, 105, 110, 101>>)

\* mutant of select_device: without a serial the first device is taken,
\* however many there are
select_device_first(online, device_serial, android_serial, storage) ==
    LET serial == IF device_serial # <<>> THEN device_serial ELSE android_serial
        found == { i \in 1..Len(online) : serial # <<>> /\ online[i].serial = serial[1] }
    IN  IF serial # <<>>
        THEN IF found # {}
             THEN LET device_info == online[CHOOSE i \in found : \A j \in found : i <= j]
                  IN  NewDevice(device_info.serial, device_info.info, storage)
             ELSE Err("UnknownDevice", serial[1])
        ELSE IF Len(online) >= 1 THEN NewDevice(online[1].serial, online[1].info, storage)
        ELSE Err("Adb", NoDevicesOnline)

\* the choice of device_or_default among the devices in state Device
select_device(online, device_serial, android_serial, storage) ==
    LET serial == IF device_serial # <<>> THEN device_serial ELSE android_serial
        found == { i \in 1..Len(online) : serial # <<>> /\ online[i].serial = serial[1] }
    IN  IF serial # <<>>
        THEN IF found # {}
             THEN LET device_info == online[CHOOSE i \in found : \A j \in found : i <= j]
                  IN  NewDevice(device_info.serial, device_info.info, storage)
             ELSE Err("UnknownDevice", serial[1])
        ELSE IF Len(online) > 1 THEN Err("MultipleDevices", <<>>)
        ELSE IF Len(online) = 1 THEN NewDevice(online[1].serial, online[1].info, storage)
        ELSE Err("Adb", NoDevicesOnline)

\* mutant of device_or_default: the devices are not filtered by their state
device_or_default_any_state(response, device_serial, android_serial, storage) ==
    select_device(devices(response), device_serial, android_serial, storage)

\* Host::device_or_default(device_serial, storage), of the response to
\* host:devices-l and the value of ANDROID_SERIAL in the environment
device_or_default(response, device_serial, android_serial, storage) ==
    select_device(in_state(devices(response), "Device"), device_serial, android_serial, storage)

DevicesCommand == B(<<104, 111, 115, 116, 58, 100, 101, 118, 105, 99, 101, 115, 45, 108>>)

MaxDevices == 2

\* the devices the server knows: serial, state, and the rest of the line
ServerDevices ==
    { [serial |-> Serial, state |-> B(<<100, 101, 118, 105, 99, 101>>), rest |-> B(<<32, 112, 114, 111, 100, 117, 99, 116, 58, 115, 100, 107, 32, 109, 111, 100, 101, 108, 58, 80, 105, 120, 101, 108, 32, 109, 111, 100, 101, 108, 58, 115, 100, 107, 95, 103, 112, 104, 111, 110, 101>>)],
      [serial |-> Serial, state |-> B(<<117, 110, 97, 117, 116, 104, 111, 114, 105, 122, 101, 100>>), rest |-> B(<<32, 117, 115, 98, 58, 49, 45, 49, 58, 50, 32, 116, 114, 97, 110, 115, 112, 111, 114, 116, 95, 105, 100, 58, 51>>)],
      [serial |-> B(<<82, 53, 56, 77>>), state |-> B(<<100, 101, 118, 105, 99, 101>>), rest |-> B(<<32, 117, 115, 98, 58, 49, 45, 49>>)],
      [serial |-> B(<<82, 53, 56, 77>>), state |-> B(<<111, 102, 102, 108, 105, 110, 101>>), rest |-> <<>>],
      [serial |-> B(<<82, 53, 56, 77>>), state |-> B(<<110, 111, 32, 112, 101, 114, 109, 105, 115, 115, 105, 111, 110, 115>>), rest |-> B(<<32, 117, 115, 98, 58, 49, 45, 49>>)] }

DeviceLists == SeqsUpTo(ServerDevices, MaxDevices)

\* one line of the list of host:devices-l
DeviceLine(d) == Flatten(<< d.serial, B(<< 9 >>), d.state, d.rest, B(<< 10 >>) >>)

\* the list, with its length in 4 hex digits
DevicesOutput(list) ==
    LET text == Flatten([ i \in 1..Len(list) |-> DeviceLine(list[i]) ])
    IN  Cat(B(PadLeft(UpperHex(BLen(text)), 4, Ascii0)), text)

\* the serial the caller passes, and the one in the environment
SerialArgs == { <<>>, << Serial >>, << B(<<82, 53, 56, 77>>) >>, << B(<<102, 111, 111, 98, 97, 114>>) >> }

AndroidSerials == { <<>>, << B(<<82, 53, 56, 77>>) >>, << <<>> >> }

\* Host::device_or_default(device_serial, storage)
DeviceOrDefault ==
    /\ devOp = "idle"
    /\ \E device_serial \in SerialArgs, android_serial \in AndroidSerials,
          storage \in StorageInputs, cr \in CommandReplies :
       \E list \in IF cr = Okay THEN DeviceLists ELSE { <<>> } :
        /\ devOp' = "device_or_default"
        /\ devPc' = "connect"
        /\ devArgs' = [ command |-> DevicesCommand,
                        device_serial |-> device_serial,
                        android_serial |-> android_serial,
                        storage |-> storage,
                        command_reply |-> cr, list |-> list ]
        /\ devIn' = Cat(cr, DevicesOutput(list))
    /\ UNCHANGED <<devLog, devOut, xfer>>
    /\ UNCHANGED devOthers

\* Host::devices reads the response as a string; device_or_default selects
SelectDevice ==
    /\ devOp = "device_or_default"
    /\ devPc = "host_command_written"
    /\ LET after(bytes) ==
               IF ~from_utf8_ok(bytes) THEN Return(Err("Utf8", <<>>))
               ELSE Return(device_or_default(Bytes(bytes), devArgs.device_serial,
                                             devArgs.android_serial, devArgs.storage))
       IN  ReadResponseThen(TRUE, TRUE, FALSE, after)
    /\ UNCHANGED <<devOp, devArgs, xfer>>
    /\ UNCHANGED devOthers

NextHost ==
    \/ DeviceOrDefault
    \/ Connect \/ ConnectFails \/ IoFails
    \/ HostWriteCommand \/ SelectDevice

SpecHost == InitDevice /\ [][NextHost]_vars

---------------------------------------------------------------------------
(* Claims on the selection of a device                                     *)

\* the serial supplied to device_or_default: the argument, or ANDROID_SERIAL
\* when no argument is given
SuppliedSerial ==
    IF devArgs.device_serial # <<>> THEN devArgs.device_serial ELSE devArgs.android_serial

\* the serials of the server's devices in state device
OnlineSerials ==
    { devArgs.list[i].serial :
        i \in { j \in 1..Len(devArgs.list) : devArgs.list[j].state = B(<<100, 101, 118, 105, 99, 101>>) } }

\* device_or_default returned after the server answered host:devices-l with
\* its list
DevicesEnumerated ==
    /\ devOp = "device_or_default" /\ devPc = "done"
    /\ devArgs.command_reply = Okay
    /\ Len(devLog) = 3

\* C20: when a serial is supplied (the argument, or ANDROID_SERIAL when no
\* argument is given), device_or_default returns a session for exactly that
\* serial if an enumerated device in state Device has it and otherwise fails
\* with UnknownDevice; it never returns MultipleDevices and never selects
\* another device.
C20_SuppliedSerial ==
    (devOp = "device_or_default" /\ devPc = "done" /\ SuppliedSerial # <<>>) =>
        /\ devOut.kind # "MultipleDevices"
        /\ IsOk(devOut) => devOut.val.serial = SuppliedSerial[1]
        /\ DevicesEnumerated =>
               IF SuppliedSerial[1] \in OnlineSerials
               THEN IsOk(devOut) /\ devOut.val.serial = SuppliedSerial[1]
               ELSE devOut = Err("UnknownDevice", SuppliedSerial[1])

\* C20 witness: no argument, ANDROID_SERIAL names the second of two devices
\* in state device, and the session is for that serial
C20_Witness ==
    /\ DevicesEnumerated
    /\ devArgs.device_serial = <<>> /\ devArgs.android_serial # <<>>
    /\ Cardinality(OnlineSerials) = 2
    /\ devArgs.list[2].serial = SuppliedSerial[1]
    /\ IsOk(devOut) /\ devOut.val.serial = SuppliedSerial[1]


\* the number of the server's devices in state device
OnlineCount ==
    Cardinality({ j \in 1..Len(devArgs.list) : devArgs.list[j].state = B(<<100, 101, 118, 105, 99, 101>>) })

\* C21: with no serial supplied and ANDROID_SERIAL unset, device_or_default
\* counts only the enumerated devices in state Device: MultipleDevices when
\* more than one remains, a session on the single one when exactly one
\* remains, a protocol error when none remains.
C21_NoSerial ==
    (DevicesEnumerated /\ SuppliedSerial = <<>>) =>
        IF OnlineCount > 1 THEN devOut = Err("MultipleDevices", <<>>)
        ELSE IF OnlineCount = 1
        THEN /\ IsOk(devOut)
             /\ \E j \in 1..Len(devArgs.list) :
                    /\ devArgs.list[j].state = B(<<100, 101, 118, 105, 99, 101>>)
                    /\ devOut.val.serial = devArgs.list[j].serial
        ELSE devOut.kind = "Adb" /\ devOut.val = NoDevicesOnline

\* C21 witness: no serial anywhere, the server lists two devices of which one
\* is not in state device, and the session is on the other
C21_Witness ==
    /\ DevicesEnumerated /\ SuppliedSerial = <<>>
    /\ Len(devArgs.list) = 2 /\ OnlineCount = 1
    /\ devArgs.list[1].state # B(<<100, 101, 118, 105, 99, 101>>)
    /\ IsOk(devOut) /\ devOut.val.serial = devArgs.list[2].serial

---------------------------------------------------------------------------
(* Session handles: Device::new and Clone                                  *)

MaxHandles == 3

\* Uuid::new_v4().as_hyphenated().to_string(), of the n-th call: 122 random
\* bits, taken to differ from call to call
new_v4(n) == Cat(B(<<117, 117, 105, 100, 45>>), B(Decimal(n)))

\* the serials sessions are made for
HandleSerials == { Serial, B(<<82, 53, 56, 77>>) }

\* the handles made so far, each with the way it was obtained, and the
\* number of calls of Uuid::new_v4
Handles == IF devOp = "idle" THEN <<>> ELSE xfer.handles

Generated == IF devOp = "idle" THEN 0 ELSE xfer.generated

\* Device::new, which device_or_default calls too: a new session
NewSession ==
    /\ devOp \in { "idle", "new", "clone" }
    /\ Len(Handles) < MaxHandles
    /\ \E serial \in HandleSerials, storage \in StorageInputs :
        LET device == new_device(serial, <<>>, storage, new_v4(Generated + 1))
        IN  /\ xfer' = [ handles |-> Append(Handles, [device |-> device.val, by |-> "new", of |-> 0]),
                         generated |-> Generated + 1 ]
            /\ devOut' = device
    /\ devOp' = "new"
    /\ devPc' = "done"
    /\ UNCHANGED <<devArgs, devIn, devLog>>
    /\ UNCHANGED devOthers

\* #[derive(Clone)] on Device: a handle with every field of the first
CloneSession ==
    /\ devOp \in { "new", "clone" }
    /\ Len(Handles) < MaxHandles
    /\ \E i \in 1..Len(Handles) :
        /\ xfer' = [xfer EXCEPT !.handles = Append(@, [device |-> Handles[i].device, by |-> "clone", of |-> IF Handles[i].by = "new" THEN i ELSE Handles[i].of])]
        /\ devOut' = Ok(Handles[i].device)
    /\ devOp' = "clone"
    /\ devPc' = "done"
    /\ UNCHANGED <<devArgs, devIn, devLog>>
    /\ UNCHANGED devOthers

NextHandles == NewSession \/ CloneSession

SpecHandles == InitDevice /\ [][NextHandles]_vars

\* the session a handle belongs to: the construction it comes from
Origin(i) == IF Handles[i].by = "new" THEN i ELSE Handles[i].of

\* C22 as stated: no two device session handles ever hold the same staging
\* path, however the handles were obtained.
C22_StagingNeverShared ==
    devOp \in { "new", "clone" } =>
        \A i, j \in 1..Len(Handles) :
            i # j => Handles[i].device.tempfile # Handles[j].device.tempfile

\* C22, amended: the staging path of a session is /data/local/tmp/<uuid>; the
\* sessions made by Device::new hold different paths, and a handle holds the
\* path of another exactly when one is a clone of the other or both are
\* clones of one session.
C22_StagingPerConstruction ==
    devOp \in { "new", "clone" } =>
        \A i, j \in 1..Len(Handles) :
                /\ Len(Handles[i].device.tempfile) = 4
                /\ SubSeq(Handles[i].device.tempfile, 1, 3) = SubSeq(Tempfile, 1, 3)
                /\ (Handles[i].device.tempfile = Handles[j].device.tempfile)
                       <=> (Origin(i) = Origin(j))

\* C22 witness: three handles, two from Device::new for the same serial and
\* one a clone of the first
C22_Witness ==
    /\ devOp = "clone"
    /\ Len(Handles) = 3
    /\ Handles[1].by = "new" /\ Handles[2].by = "new" /\ Handles[3].by = "clone"
    /\ Handles[3].of = 1
    /\ Handles[1].device.serial = Handles[2].device.serial
    /\ Handles[1].device.tempfile # Handles[2].device.tempfile
    /\ Handles[3].device.tempfile = Handles[1].device.tempfile

---------------------------------------------------------------------------
(* Claims on forward_port                                                  *)

\* forward_port returned after the server accepted the command: connect,
\* write, read
ForwardAccepted ==
    /\ devOp = "forward_port" /\ devPc = "done"
    /\ Len(devLog) = 3
    /\ devArgs.command_reply = Okay

\* what the server sends after its first OKAY, without the second OKAY of a
\* host-serial command
ForwardPayload ==
    IF StartsWith(devArgs.output, Okay) THEN Drop(devArgs.output, 4) ELSE devArgs.output

\* the ports a server reports in the replies of the model
ReportedPorts == { 5, 1234, 40001 }

\* the payload reports the port p: its decimal digits, alone or behind their
\* length in 4 hex digits as in every length-prefixed reply of the server
ReportsPort(payload, p) ==
    \/ payload = B(Decimal(p))
    \/ payload = Cat(B(PadLeft(UpperHex(Len(Decimal(p))), 4, Ascii0)), B(Decimal(p)))

\* C23 as stated: forward_port(l, r) with l # 0 returns exactly l whenever
\* the server accepts the forward, and forward_port(0, r) returns the
\* non-zero port that the server allocated and reported in its reply.
C23_ForwardPort ==
    ForwardAccepted =>
        /\ (devArgs.local # 0 /\ devArgs.output \in { <<>>, Okay }) => devOut = Ok(devArgs.local)
        /\ \A p \in ReportedPorts :
               (devArgs.local = 0 /\ ReportsPort(ForwardPayload, p)) => devOut = Ok(p)

\* what holds: l # 0 is returned as it is, and with l = 0 the whole payload
\* is parsed as a decimal u16, so a port is returned when the payload is its
\* bare digits, and a payload with a length in front is an error or another
\* number
C23_ForwardPortBareDigits ==
    ForwardAccepted =>
        /\ (devArgs.local # 0 /\ devArgs.output \in { <<>>, Okay }) => devOut = Ok(devArgs.local)
        /\ \A p \in ReportedPorts :
               (devArgs.local = 0 /\ ForwardPayload = B(Decimal(p))) => devOut = Ok(p)
        /\ (devArgs.local = 0 /\ IsOk(devOut)) =>
               /\ devOut.val \in 0..U16Max
               /\ \E zeros \in 0..9 :
                      Bytes(ForwardPayload) \in
                          { sign \o [i \in 1..zeros |-> Ascii0] \o Decimal(devOut.val) :
                              sign \in { <<>>, << AsciiPlus >> } }

---------------------------------------------------------------------------
(* Host::track_devices                                                     *)

\* fn parse_device_brief(line: &str) -> Option<DeviceBrief>
parse_device_brief(line) ==
    LET pairs == split_whitespace(line)
    IN  IF Len(pairs) < 2 THEN <<>>
        ELSE << [serial |-> B(pairs[1]), state |-> DeviceState(pairs[2])] >>

TrackCommand == B(<<104, 111, 115, 116, 58, 116, 114, 97, 99, 107, 45, 100, 101, 118, 105, 99, 101, 115>>)

FailedToParse == B(<<70, 97, 105, 108, 101, 100, 32, 116, 111, 32, 112, 97, 114, 115, 101, 32, 100, 101, 118, 105, 99, 101, 32, 115, 116, 97, 116, 101>>)

\* mutant of track_frame: a frame of length 0 ends the stream
track_frame_ends_at_empty(stream) ==
    LET length == read_length(stream)
    IN  IF ~IsOk(length.res) THEN [item |-> << length.res >>, rest |-> length.rest]
        ELSE IF length.res.val = 0 THEN [item |-> << Err("Io", <<>>) >>, rest |-> length.rest]
        ELSE LET body == read_exact(length.rest, length.res.val)
             IN  IF ~body.ok THEN [item |-> << Err("Io", <<>>) >>, rest |-> body.rest]
                 ELSE IF ~from_utf8_ok(body.bytes)
                      THEN [item |-> << Err("Utf8", <<>>) >>, rest |-> body.rest]
                 ELSE IF parse_device_brief(Bytes(body.bytes)) = <<>>
                      THEN [item |-> << Err("Adb", FailedToParse) >>, rest |-> body.rest]
                 ELSE [ item |-> << Ok(parse_device_brief(Bytes(body.bytes))[1]) >>,
                        rest |-> body.rest ]

\* one turn of the loop of track_devices: the item it yields, if any (an Ok
\* item is a device brief, an error ends the stream), and the bytes left
track_frame(stream) ==
    LET length == read_length(stream)
    IN  IF ~IsOk(length.res) THEN [item |-> << length.res >>, rest |-> length.rest]
        ELSE IF length.res.val = 0 THEN [item |-> <<>>, rest |-> length.rest]
        ELSE LET body == read_exact(length.rest, length.res.val)
             IN  IF ~body.ok THEN [item |-> << Err("Io", <<>>) >>, rest |-> body.rest]
                 ELSE IF ~from_utf8_ok(body.bytes)
                      THEN [item |-> << Err("Utf8", <<>>) >>, rest |-> body.rest]
                 ELSE IF parse_device_brief(Bytes(body.bytes)) = <<>>
                      THEN [item |-> << Err("Adb", FailedToParse) >>, rest |-> body.rest]
                 ELSE [ item |-> << Ok(parse_device_brief(Bytes(body.bytes))[1]) >>,
                        rest |-> body.rest ]

MaxFrames == 3

\* the frames of the server: what each is (a device list, empty, or one no
\* brief can be read from), its body, and for a list its first device
TrackFrames ==
    { [is |-> "list", body |-> B(<<101, 109, 117, 108, 97, 116, 111, 114, 45, 53, 53, 53, 52, 9, 100, 101, 118, 105, 99, 101, 10>>), serial |-> Serial, state |-> "Device"],
      [is |-> "list", body |-> B(<<82, 53, 56, 77, 9, 111, 102, 102, 108, 105, 110, 101, 10, 101, 109, 117, 108, 97, 116, 111, 114, 45, 53, 53, 53, 52, 9, 100, 101, 118, 105, 99, 101, 10>>),
       serial |-> B(<<82, 53, 56, 77>>), state |-> "Offline"],
      [is |-> "list", body |-> B(<<82, 53, 56, 77, 32, 32, 99, 111, 110, 110, 101, 99, 116, 105, 110, 103>>), serial |-> B(<<82, 53, 56, 77>>), state |-> "Unknown"],
      [is |-> "empty", body |-> <<>>, serial |-> <<>>, state |-> ""],
      [is |-> "bad", body |-> B(<<10>>), serial |-> <<>>, state |-> ""],
      [is |-> "bad", body |-> B(<< 255, 9, 100 >>), serial |-> <<>>, state |-> ""] }

TrackLists == SeqsUpTo(TrackFrames, MaxFrames)

\* a frame on the wire: the length of the body in 4 hex digits, the body
TrackFrame(f) == Cat(B(PadLeft(UpperHex(BLen(f.body)), 4, Ascii0)), f.body)

\* how the stream of the server ends: closed after a frame, closed inside a
\* frame, or with a length that is no hex number
TrackEnds == { <<>>, B(<<48, 48, 48, 53, 82, 53>>), B(<<48, 48, 71, 48>>) }

\* Host::track_devices(): the stream is polled
TrackDevices ==
    /\ devOp = "idle"
    /\ \E cr \in CommandReplies :
       \E frames \in IF cr = Okay THEN TrackLists ELSE { <<>> },
          end \in IF cr = Okay THEN TrackEnds ELSE { <<>> } :
        /\ devOp' = "track_devices"
        /\ devPc' = "connect"
        /\ devArgs' = [ command |-> TrackCommand, command_reply |-> cr,
                        frames |-> frames, end |-> end ]
        /\ devIn' = Flatten(<< cr, Flatten([ i \in 1..Len(frames) |-> TrackFrame(frames[i]) ]), end >>)
        /\ xfer' = [items |-> <<>>]
    /\ UNCHANGED <<devLog, devOut>>
    /\ UNCHANGED devOthers

\* the status of host:track-devices: OKAY, or the message of the server as a
\* protocol error
ReadTrackStatus ==
    /\ devOp = "track_devices"
    /\ devPc = "host_command_written"
    /\ LET status == read_exact(devIn, 4)
           r == IF ~status.ok THEN [res |-> Err("Io", <<>>), rest |-> status.rest]
                ELSE IF status.bytes # Okay THEN read_error_reply(status.rest)
                ELSE [res |-> Ok(<<>>), rest |-> status.rest]
       IN  /\ devIn' = r.rest
           /\ devLog' = Append(devLog, Event("read", Consumed(devIn, r.rest)))
           /\ IF IsOk(r.res) THEN devPc' = "tracking" /\ UNCHANGED devOut
              ELSE Return(r.res)
    /\ UNCHANGED <<devOp, devArgs, xfer>>
    /\ UNCHANGED devOthers

\* loop { read_length; read_exact; parse_device_brief; yield }
TrackLoop ==
    /\ devOp = "track_devices"
    /\ devPc = "tracking"
    /\ LET r == track_frame(devIn)
       IN  /\ devIn' = r.rest
           /\ devLog' = Append(devLog, Event("read", Consumed(devIn, r.rest)))
           /\ IF r.item = <<>> THEN UNCHANGED <<devPc, devOut, xfer>>
              ELSE IF IsOk(r.item[1])
                   THEN /\ xfer' = [xfer EXCEPT !.items = Append(@, r.item[1].val)]
                        /\ UNCHANGED <<devPc, devOut>>
              ELSE Return(r.item[1]) /\ UNCHANGED xfer
    /\ UNCHANGED <<devOp, devArgs>>
    /\ UNCHANGED devOthers

NextTrack ==
    \/ TrackDevices
    \/ Connect \/ ConnectFails \/ IoFails
    \/ HostWriteCommand \/ ReadTrackStatus \/ TrackLoop

SpecTrack == InitDevice /\ [][NextTrack]_vars

---------------------------------------------------------------------------
(* Claims on track_devices                                                 *)

\* the frames of the server before the first one no brief can be read from
RECURSIVE GoodFrames(_)
GoodFrames(frames) ==
    IF frames = <<>> \/ frames[1].is = "bad" THEN <<>>
    ELSE << frames[1] >> \o GoodFrames(Tail(frames))

\* the briefs of the device lists among frames, in their order
RECURSIVE Briefs(_)
Briefs(frames) ==
    IF frames = <<>> THEN <<>>
    ELSE (IF frames[1].is = "list"
          THEN << [serial |-> frames[1].serial, state |-> frames[1].state] >>
          ELSE <<>>) \o Briefs(Tail(frames))

\* the frames that were read whole so far
FramesRead == Len(devLog) - 3 - (IF devPc = "done" THEN 1 ELSE 0)

\* the stream was opened: connect, write, OKAY read
Tracking ==
    /\ devOp = "track_devices"
    /\ devPc \in { "tracking", "done" }
    /\ Len(devLog) >= 3
    /\ devArgs.command_reply = Okay

\* C24: the track_devices stream yields exactly one device brief per
\* non-empty frame, in frame order; a zero-length frame yields nothing and
\* does not end the stream; after the first read or parse error is yielded no
\* further item is produced.
C24_TrackDevices ==
    Tracking =>
        /\ devPc = "tracking" =>
               /\ FramesRead <= Len(GoodFrames(devArgs.frames))
               /\ xfer.items = Briefs(SubSeq(devArgs.frames, 1, FramesRead))
        /\ devPc = "done" =>
               /\ ~IsOk(devOut)
               /\ FramesRead = Len(GoodFrames(devArgs.frames))
               /\ xfer.items = Briefs(GoodFrames(devArgs.frames))

\* C24 witness: a device list, an empty frame and another device list were
\* read, and the stream has yielded the two briefs in that order
C24_Witness ==
    /\ Tracking /\ devPc = "tracking"
    /\ Len(devArgs.frames) = 3
    /\ devArgs.frames[1].is = "list" /\ devArgs.frames[2].is = "empty" /\ devArgs.frames[3].is = "list"
    /\ devArgs.frames[1].serial # devArgs.frames[3].serial
    /\ Len(xfer.items) = 2
    /\ xfer.items[1].serial = devArgs.frames[1].serial
    /\ xfer.items[2].serial = devArgs.frames[3].serial

---------------------------------------------------------------------------
(* Device::execute_host_shell_command_as                                   *)

\* SYNC_REGEX: a character outside [A-Za-z0-9_@%+=:,./-]
SyncRegexChars ==
    (Ascii0 .. Ascii9) \cup (AsciiUpperA .. 90) \cup (AsciiLowerA .. 122)
        \cup { 95, 64, 37, 43, 61, 58, 44, 46, 47, 45 }

is_match(text) == \E i \in 1..Len(text) : text[i] \notin SyncRegexChars

\* shell_command.replace('\'', "'\"'\"'")
RECURSIVE replace_quotes(_)
replace_quotes(text) ==
    IF text = <<>> THEN <<>>
    ELSE (IF text[1] = 39 THEN << 39, 34, 39, 34, 39 >> ELSE << text[1] >>)
             \o replace_quotes(Tail(text))

\* starts and ends with '"', or starts and ends with '\''
has_outer_quotes(text) ==
    /\ text # <<>>
    /\ \/ text[1] = 34 /\ text[Len(text)] = 34
       \/ text[1] = 39 /\ text[Len(text)] = 39

\* shell_command.starts_with("su")
starts_with_su(text) == Len(text) >= 2 /\ text[1] = 115 /\ text[2] = 117

\* mutant of shell_request: the package is looked up before the test for su
shell_request_package_first(run_as_package, shell_command, enable_run_as) ==
    LET text == Bytes(shell_command)
    IN  IF enable_run_as /\ run_as_package = <<>> THEN Err("MissingPackage", <<>>)
        ELSE IF starts_with_su(text) \/ ~enable_run_as THEN Ok(Cat(B(<<115, 104, 101, 108, 108, 58>>), shell_command))
        ELSE IF has_outer_quotes(text)
             THEN Ok(Flatten(<< B(<<115, 104, 101, 108, 108, 58, 114, 117, 110, 45, 97, 115, 32>>), run_as_package[1], B(<< 32 >>), shell_command >>))
        ELSE IF is_match(text)
             THEN Ok(Flatten(<< B(<<115, 104, 101, 108, 108, 58, 114, 117, 110, 45, 97, 115, 32>>), run_as_package[1], B(<< 32 >>),
                                B(replace_quotes(text)) >>))
        ELSE Ok(Flatten(<< B(<<115, 104, 101, 108, 108, 58, 114, 117, 110, 45, 97, 115, 32>>), run_as_package[1], B(<< 32, 34 >>),
                           shell_command, B(<< 34 >>) >>))

\* the command execute_host_shell_command_as sends for shell_command, or the
\* error it returns without sending one
shell_request(run_as_package, shell_command, enable_run_as) ==
    LET text == Bytes(shell_command)
    IN  IF starts_with_su(text) THEN Ok(Cat(B(<<115, 104, 101, 108, 108, 58>>), shell_command))
        ELSE IF ~enable_run_as THEN Ok(Cat(B(<<115, 104, 101, 108, 108, 58>>), shell_command))
        ELSE IF run_as_package = <<>> THEN Err("MissingPackage", <<>>)
        ELSE IF has_outer_quotes(text)
             THEN Ok(Flatten(<< B(<<115, 104, 101, 108, 108, 58, 114, 117, 110, 45, 97, 115, 32>>), run_as_package[1], B(<< 32 >>), shell_command >>))
        ELSE IF is_match(text)
             THEN Ok(Flatten(<< B(<<115, 104, 101, 108, 108, 58, 114, 117, 110, 45, 97, 115, 32>>), run_as_package[1], B(<< 32 >>),
                                B(replace_quotes(text)) >>))
        ELSE Ok(Flatten(<< B(<<115, 104, 101, 108, 108, 58, 114, 117, 110, 45, 97, 115, 32>>), run_as_package[1], B(<< 32, 34 >>),
                           shell_command, B(<< 34 >>) >>))

\* response.replace("\r\n", "\n")
unify_new_lines(response) ==
    LET text == Bytes(response)
        kept == { i \in 1..Len(text) : ~(text[i] = 13 /\ i < Len(text) /\ text[i + 1] = 10) }
    IN  B([ n \in 1..Cardinality(kept) |-> text[Nth(kept, n)] ])

\* the commands given to the shell
ShellTexts ==
    { B(<<108, 115>>), B(<<108, 115, 32, 47, 115, 100, 99, 97, 114, 100>>), B(<<115, 117, 32, 45, 99, 32, 105, 100>>), B(<<115, 117>>), B(<<115, 117, 109, 32, 102>>), B(<<39, 108, 115, 39>>),
      B(<< 34, 108, 115, 32, 45, 108, 34 >>),        \* "ls -l" in double quotes
      B(<<101, 99, 104, 111, 32, 39, 97, 32, 98, 39>>), B(<<115>>), <<>> }

\* what the command prints
ShellOutputs == { <<>>, B(<< 111, 107, 13, 10, 13 >>), B(<< 255 >>) }

\* Device::execute_host_shell_command_as(shell_command, enable_run_as) on a
\* session with this run_as_package
ExecuteHostShellCommandAs ==
    /\ devOp = "idle"
    /\ \E package \in Packages, shell_command \in ShellTexts, enable_run_as \in BOOLEAN,
          tr \in TransportReplies, cr \in CommandReplies :
       \E output \in IF tr = Okay /\ cr = Okay THEN ShellOutputs ELSE { <<>> } :
        LET request == shell_request(package, shell_command, enable_run_as)
        IN  /\ devOp' = "shell"
            /\ devArgs' = [ package |-> package, shell_command |-> shell_command,
                            enable_run_as |-> enable_run_as,
                            command |-> IF IsOk(request) THEN request.val ELSE <<>>,
                            has_output |-> TRUE, has_length |-> FALSE, trace |-> FALSE,
                            transport_reply |-> tr, command_reply |-> cr, output |-> output ]
            /\ devIn' = Cat(tr, Cat(cr, output))
            /\ IF IsOk(request) THEN devPc' = "connect" /\ UNCHANGED devOut
               ELSE Return(request)
    /\ UNCHANGED <<devLog, xfer>>
    /\ UNCHANGED devOthers

\* execute_host_command: the shell: command on the selected transport
WriteShell ==
    /\ devOp = "shell"
    /\ devPc = "transport_ok"
    /\ WriteMessage(devArgs.command, "shell_written")
    /\ UNCHANGED <<devOp, devArgs, devIn, xfer>>
    /\ UNCHANGED devOthers

\* execute_host_command_to_string: the reply as a string, CR LF as LF
ReadShell ==
    /\ devOp = "shell"
    /\ devPc = "shell_written"
    /\ LET after(bytes) ==
               IF ~from_utf8_ok(bytes) THEN Return(Err("Utf8", <<>>))
               ELSE Return(Ok(unify_new_lines(bytes)))
       IN  ReadResponseThen(TRUE, FALSE, FALSE, after)
    /\ UNCHANGED <<devOp, devArgs, xfer>>
    /\ UNCHANGED devOthers

NextShell ==
    \/ ExecuteHostShellCommandAs
    \/ Connect \/ ConnectFails \/ IoFails
    \/ WriteTransport \/ ReadTransport \/ WriteShell \/ ReadShell

SpecShell == InitDevice /\ [][NextShell]_vars

---------------------------------------------------------------------------
(* Claims on the shell commands                                            *)

\* run-as is requested on a session without a run_as_package
RunAsWithoutPackage ==
    /\ devOp = "shell"
    /\ devArgs.enable_run_as
    /\ devArgs.package = <<>>

\* C25 as stated: execute_host_shell_command_as with run-as requested on a
\* session that has no run_as_package returns MissingPackage and sends no
\* shell command to the device, for every command string.
C25_MissingPackage ==
    RunAsWithoutPackage =>
        /\ devPc = "done"
        /\ devOut = Err("MissingPackage", <<>>)
        /\ devLog = <<>>

\* C25, amended: so it is for every command string that does not start with
\* "su"; a command that starts with "su" is sent as shell:<command>, and the
\* result is that of the command, never MissingPackage.
C25_MissingPackageButSu ==
    RunAsWithoutPackage =>
        IF ~StartsWith(devArgs.shell_command, B(<<115, 117>>))
        THEN /\ devPc = "done"
             /\ devOut = Err("MissingPackage", <<>>)
             /\ devLog = <<>>
        ELSE /\ devOut.kind # "MissingPackage"
             /\ \A i \in 1..Len(devLog) :
                    (devLog[i].ev = "write" /\ i > 2) =>
                        devLog[i].bytes = encode_message(Cat(B(<<115, 104, 101, 108, 108, 58>>), devArgs.shell_command)).val
             /\ (devPc = "done" /\ IsOk(devOut)) =>
                    /\ Len(devLog) = 5
                    /\ devLog[4].ev = "write"

\* C25 witness: run-as requested without a package for "echo 'a b'", and
\* MissingPackage returned with nothing sent
C25_Witness ==
    /\ RunAsWithoutPackage
    /\ devArgs.shell_command = B(<<101, 99, 104, 111, 32, 39, 97, 32, 98, 39>>)
    /\ devPc = "done"
    /\ devOut = Err("MissingPackage", <<>>)
    /\ devLog = <<>>

---------------------------------------------------------------------------
(* Device::install_package                                                 *)

InvalidApkPath == B(<<73, 110, 118, 97, 108, 105, 100, 32, 97, 112, 107, 32, 112, 97, 116, 104>>)

\* UnixPathBuf::from("/data/local/tmp").join(base_name)
tmp_apk_path(base_name) == SubSeq(Tempfile, 1, 3) \o << base_name >>

\* "pm install", " -r", " -g", and the path
pm_install(reinstall, grant_runtime_permissions, path) ==
    Flatten(<< B(<<112, 109, 32, 105, 110, 115, 116, 97, 108, 108>>),
               IF reinstall THEN B(<<32, 45, 114>>) ELSE <<>>,
               IF grant_runtime_permissions THEN B(<<32, 45, 103>>) ELSE <<>>,
               B(<< 32 >>), display(path) >>)

\* if !output.starts_with("Success") { PackageManagerError(output) } else Ok(())
install_result(output) ==
    IF StartsWith(output, B(<<83, 117, 99, 99, 101, 115, 115>>)) THEN Ok(<<>>)
    ELSE Err("PackageManagerError", output)

\* the apk paths: their file_name(), none for a path that ends in "..", and
\* one that is not UTF-8
ApkNames == { << B(<<97, 112, 112, 46, 97, 112, 107>>) >>, << B(<<83, 117, 99, 99, 101, 115, 115>>) >>, <<>>, << B(<< 255 >>) >> }

\* what pm install prints
PmOutputs ==
    { B(<<83, 117, 99, 99, 101, 115, 115, 10>>), B(<<83, 117, 99, 99, 101, 115, 115>>), B(<<83, 117, 99, 99, 101, 115, 115, 102, 117, 108, 63, 32, 110, 111>>), <<>>, B(<<115, 117, 99, 99, 101, 115, 115>>), B(<<32, 83, 117, 99, 99, 101, 115, 115>>),
      B(<<70, 97, 105, 108, 117, 114, 101, 32, 91, 73, 78, 83, 84, 65, 76, 76, 95, 70, 65, 73, 76, 69, 68, 95, 65, 76, 82, 69, 65, 68, 89, 95, 69, 88, 73, 83, 84, 83, 93, 10, 83, 117, 99, 99, 101, 115, 115, 10>>) }

\* the errors of a push or of a shell command
CallErrors == { Err("Io", <<>>), Err("Adb", Cat(AdbErrorPrefix, B(<<104, 105>>))) }

\* Device::install_package(apk_path, reinstall, grant_runtime_permissions):
\* the file name, and the file opened
InstallPackage ==
    /\ devOp = "idle"
    /\ \E name \in ApkNames, reinstall \in BOOLEAN, grant \in BOOLEAN, opened \in BOOLEAN :
        /\ devOp' = "install_package"
        /\ devArgs' = [ name |-> name, reinstall |-> reinstall,
                        grant_runtime_permissions |-> grant, opened |-> opened ]
        /\ IF name = <<>> \/ ~from_utf8_ok(name[1]) THEN Return(Err("Adb", InvalidApkPath))
           ELSE IF ~opened THEN Return(Err("Io", <<>>))
           ELSE devPc' = "push_apk" /\ UNCHANGED devOut
        /\ xfer' = [output |-> <<>>]
    /\ UNCHANGED <<devIn, devLog>>
    /\ UNCHANGED devOthers

\* self.push(&mut file, &tmp_apk_path, 0o644).await?
InstallPush ==
    /\ devOp = "install_package"
    /\ devPc = "push_apk"
    /\ devLog' = Append(devLog, Event("push", display(tmp_apk_path(devArgs.name[1]))))
    /\ \E result \in { Ok(<<>>) } \cup CallErrors :
        IF IsOk(result) THEN devPc' = "pm_install" /\ UNCHANGED devOut
        ELSE Return(result)
    /\ UNCHANGED <<devOp, devArgs, devIn, xfer>>
    /\ UNCHANGED devOthers

\* let output = self.execute_host_shell_command(&command).await?
InstallPm ==
    /\ devOp = "install_package"
    /\ devPc = "pm_install"
    /\ devLog' = Append(devLog,
                        ShellEvent(pm_install(devArgs.reinstall, devArgs.grant_runtime_permissions,
                                              tmp_apk_path(devArgs.name[1])), FALSE))
    /\ \E result \in { Ok(output) : output \in PmOutputs } \cup CallErrors :
        IF IsOk(result)
        THEN /\ xfer' = [output |-> << result.val >>]
             /\ devPc' = "rm_apk"
             /\ UNCHANGED devOut
        ELSE Return(result) /\ UNCHANGED xfer
    /\ UNCHANGED <<devOp, devArgs, devIn>>
    /\ UNCHANGED devOthers

\* self.execute_host_shell_command("rm <tmp_apk_path>").await?, and the result
InstallRm ==
    /\ devOp = "install_package"
    /\ devPc = "rm_apk"
    /\ devLog' = Append(devLog,
                        ShellEvent(Cat(B(<<114, 109, 32>>), display(tmp_apk_path(devArgs.name[1]))), FALSE))
    /\ \E result \in { Ok(<<>>) } \cup CallErrors :
        IF IsOk(result) THEN Return(install_result(xfer.output[1]))
        ELSE Return(result)
    /\ UNCHANGED <<devOp, devArgs, devIn, xfer>>
    /\ UNCHANGED devOthers

NextInstall == InstallPackage \/ InstallPush \/ InstallPm \/ InstallRm

SpecInstall == InitDevice /\ [][NextInstall]_vars

\* install_package returned after it had the output of pm install
InstallOutput ==
    /\ devOp = "install_package" /\ devPc = "done"
    /\ xfer.output # <<>>

\* C26 as stated: install_package returns success if and only if the output
\* of pm install begins with "Success"; in every other case where that output
\* was obtained it returns PackageManagerError carrying the full output.
C26_InstallResult ==
    InstallOutput =>
        IF StartsWith(xfer.output[1], B(<<83, 117, 99, 99, 101, 115, 115>>)) THEN devOut = Ok(<<>>)
        ELSE devOut = Err("PackageManagerError", xfer.output[1])

\* what holds: so it is when the rm of the pushed apk succeeded; when the rm
\* failed, its error is the result, whatever pm install printed
C26_InstallResultAfterRm ==
    InstallOutput =>
        \/ devOut = install_result(xfer.output[1])
        \/ devOut \in CallErrors

---------------------------------------------------------------------------
(* The lengths of the sync protocol over their whole range                 *)

\* A length below 2^32 is the record [hi, lo] of its two 16-bit halves, its
\* value being hi * 65536 + lo.

\* write_length_little_endian(writer, n): bytes[0] = n & 0xFF, bytes[1] =
\* (n >> 8) & 0xFF, bytes[2] = (n >> 16) & 0xFF, bytes[3] = (n >> 24) & 0xFF
write_length_little_endian(n) ==
    B(<< n.lo % 256, (n.lo \div 256) % 256, n.hi % 256, (n.hi \div 256) % 256 >>)

\* mutant of read_length_little_endian_halves: the last byte is shifted by 16
read_length_little_endian_shift16(stream) ==
    LET r == read_exact(stream, 4)
        b == Bytes(r.bytes)
    IN  IF ~r.ok THEN [res |-> Err("Io", <<>>), rest |-> r.rest]
        ELSE [ res |-> Ok([hi |-> b[3] + b[4], lo |-> b[1] + 256 * b[2]]),
               rest |-> r.rest ]

\* read_length_little_endian(reader): bytes[0] + (bytes[1] << 8) +
\* (bytes[2] << 16) + (bytes[3] << 24), as a usize of at least 32 bits
read_length_little_endian_halves(stream) ==
    LET r == read_exact(stream, 4)
        b == Bytes(r.bytes)
    IN  IF ~r.ok THEN [res |-> Err("Io", <<>>), rest |-> r.rest]
        ELSE [ res |-> Ok([hi |-> b[3] + 256 * b[4], lo |-> b[1] + 256 * b[2]]),
               rest |-> r.rest ]

\* the halves of the lengths: 0, 1, around one byte, around 15 bits, all ones
Halves == { 0, 1, 255, 256, 258, 32767, 32768, 65535 }

WideLengths == [hi : Halves, lo : Halves]

\* what follows the length on the stream
Followers == { <<>>, B(<< 7 >>) }

\* write_length_little_endian(writer, n), the writer taking the 4 bytes
WriteLengthLittleEndian ==
    /\ codecOp = "idle"
    /\ \E n \in WideLengths :
        /\ codecOp' = "write_length_little_endian"
        /\ codecIn' = n
        /\ codecOut' = [res |-> Ok(4), rest |-> write_length_little_endian(n)]
    /\ UNCHANGED codecOthers

\* read_length_little_endian(reader) on the bytes that were written, with
\* what follows them
ReadLengthLittleEndian ==
    /\ codecOp = "write_length_little_endian"
    /\ \E follower \in Followers :
        /\ codecOp' = "read_length_little_endian"
        /\ codecIn' = [n |-> codecIn, written |-> codecOut.rest, follower |-> follower]
        /\ codecOut' = read_length_little_endian_halves(Cat(codecOut.rest, follower))
    /\ UNCHANGED codecOthers

NextLittleEndian == WriteLengthLittleEndian \/ ReadLengthLittleEndian

SpecLittleEndian == InitCodec /\ [][NextLittleEndian]_vars

\* C27: for every n in [0, 2^32), the 4 bytes produced by
\* write_length_little_endian(n) are read back by read_length_little_endian
\* as n (least-significant byte first).
C27_LittleEndianRoundTrip ==
    /\ codecOp = "write_length_little_endian" =>
           /\ BLen(codecOut.rest) = 4
           /\ \A b \in { Bytes(codecOut.rest) } :
                  /\ b[1] = codecIn.lo % 256
                  /\ b[4] = codecIn.hi \div 256
                  /\ b[1] + 256 * b[2] = codecIn.lo
                  /\ b[3] + 256 * b[4] = codecIn.hi
           /\ codecIn.hi < 32768 =>
                  codecOut.rest = length_little_endian(codecIn.hi * 65536 + codecIn.lo)
    /\ codecOp = "read_length_little_endian" =>
           /\ codecOut.res = Ok(codecIn.n)
           /\ codecOut.rest = codecIn.follower
           /\ codecIn.n.hi < 32768 =>
                  read_length_little_endian(Cat(codecIn.written, codecIn.follower)).res
                      = Ok(codecIn.n.hi * 65536 + codecIn.n.lo)

\* C27 witness: 0xFFFF8000, which is above 2^31, was written as 00 80 FF FF
\* and read back
C27_Witness ==
    /\ codecOp = "read_length_little_endian"
    /\ codecIn.n = [hi |-> 65535, lo |-> 32768]
    /\ codecIn.written = B(<< 0, 128, 255, 255 >>)
    /\ codecOut.res = Ok(codecIn.n)

---------------------------------------------------------------------------
(* Claims on read_response without output                                  *)

\* C28: read_response with has_output = false consumes exactly the 4 status
\* bytes of an OKAY reply and returns an empty payload whatever has_length
\* is, so every byte that follows (the next reply or the sync frames) is
\* still unread on the connection.
C28_NoOutputReadsStatusOnly ==
    (respOp = "read_response" /\ ~respArgs.has_output /\ StartsWith(respIn, Okay)) =>
        /\ respOut.res = Ok(<<>>)
        /\ respOut.rest = Drop(respIn, 4)
        /\ Cat(Okay, respOut.rest) = respIn
        /\ \A has_length \in BOOLEAN :
               read_response(respIn, FALSE, has_length, FALSE) = respOut

\* C28 witness: OKAY OKAY 0002 hi read with has_output = false and has_length
\* = true: the second OKAY, the length and the message are left
C28_Witness ==
    /\ respOp = "read_response"
    /\ ~respArgs.has_output /\ respArgs.has_length
    /\ respIn = Flatten(<< Okay, Okay, B(<<48, 48, 48, 50>>), B(<<104, 105>>) >>)
    /\ respOut = [res |-> Ok(<<>>), rest |-> Flatten(<< Okay, B(<<48, 48, 48, 50>>), B(<<104, 105>>) >>)]


---------------------------------------------------------------------------
(* Claims on the release of the staging file                               *)

\* a push under run-as returned after it wrote its SEND header
IndirectPushReturned ==
    /\ devOp = "push" /\ EnableRunAs /\ devPc = "done"
    /\ FirstEvent("write", Send) > 0

\* `rm -rf <staging>` was issued after the SEND header was written
StagingReleased ==
    /\ FirstEvent("shell", RemoveStagingCommand) > FirstEvent("write", Send)
    /\ ShellEvents[Len(ShellEvents)] = ShellEvent(RemoveStagingCommand, FALSE)

\* C29: every push under run-as that has written its SEND header issues
\* `rm -rf <staging>` before it returns, on every outcome: OKAY, FAIL, an
\* unknown status, and an I/O error while the source is read, the frames are
\* written or the status is read.
C29_StagingReleasedOnEveryOutcome == IndirectPushReturned => StagingReleased

\* what holds of C29: the staging file is released when the 4 bytes of the
\* status were read, whatever they are, and only then
C29_StagingReleasedOnStatus ==
    IndirectPushReturned => (StagingReleased <=> BLen(SessionRead) >= 4)

\* a push under run-as returned an I/O error after it sent a DATA frame to the
\* staging file, and issued no `rm -rf <staging>`
C29_Leak ==
    /\ IndirectPushReturned
    /\ FirstEvent("write", Data) > 0
    /\ devOut = Err("Io", <<>>)
    /\ FirstEvent("shell", RemoveStagingCommand) = 0


---------------------------------------------------------------------------
(* Claims on the directories a push prepares                               *)

\* the k-th ancestor of the destination, the parent being the first
Ancestor(k) == SubSeq(devArgs.dest, 1, Len(devArgs.dest) - k)

\* how many ancestors of the destination are missing on the device
MissingAncestors == Len(devArgs.dest) - 1 - devArgs.existing

\* `ls` on the ancestors from the parent upward, up to the first that exists;
\* then, when one was missing, `mkdir -p` on the parent and `chmod  -R 777`
\* (as chmod() formats it) on the last one found missing
ExpectedPreparation ==
    [ k \in 1..(MissingAncestors + 1) |->
        ShellEvent(Cat(B(<<108, 115, 32>>), display(Ancestor(k))), EnableRunAs) ]
    \o IF MissingAncestors = 0 THEN <<>>
       ELSE << ShellEvent(Cat(B(<<109, 107, 100, 105, 114, 32, 45, 112, 32>>), display(Ancestor(1))),
                          enable_run_as_for_path(devArgs.package, Ancestor(1))),
               ShellEvent(Cat(B(<<99, 104, 109, 111, 100, 32, 32, 45, 82, 32, 55, 55, 55, 32>>), display(Ancestor(MissingAncestors))),
                          enable_run_as_for_path(devArgs.package, Ancestor(MissingAncestors))) >>

\* the events of the push before it opens its connection
BeforeConnect ==
    LET others == { i \in 1..Len(devLog) : devLog[i].ev # "shell" }
    IN  IF others = {} THEN devLog
        ELSE SubSeq(devLog, 1, (CHOOSE i \in others : \A j \in others : i <= j) - 1)

\* C30: before SEND is written, push probes the ancestors of the destination
\* from the nearest upward and stops at the first that exists; if at least
\* one is missing it issues `mkdir -p` on the nearest missing ancestor and
\* then `chmod -R 777` on the shallowest missing one, in that order; if the
\* parent of the destination exists it issues neither.
C30_AncestorsPrepared ==
    devOp = "push" =>
        \A expected \in { ExpectedPreparation }, before \in { BeforeConnect } :
        \A connect \in { FirstEvent("connect", <<>>) }, send \in { FirstEvent("write", Send) } :
            /\ Len(before) <= Len(expected)
            /\ before = SubSeq(expected, 1, Len(before))
            /\ connect > 0 => before = expected
            /\ send > 0 =>
                  /\ connect = Len(expected) + 1
                  /\ send > connect
                  /\ \A i \in (connect + 1)..send : devLog[i].ev # "shell"

\* C30 witness: SEND is written by a push to /sdcard/d/f on a device without
\* /sdcard: ls /sdcard/d, ls /sdcard, ls /, mkdir -p /sdcard/d, chmod  -R 777
\* /sdcard went before the connection
C30_Witness ==
    /\ devOp = "push" /\ devPc = "sending"
    /\ devArgs.dest = << B(<<115, 100, 99, 97, 114, 100>>), B(<<100>>), B(<<102>>) >>
    /\ MissingAncestors = 2
    /\ FirstEvent("write", Send) = 11
    /\ SubSeq(devLog, 1, 5)
         = << ShellEvent(B(<<108, 115, 32, 47, 115, 100, 99, 97, 114, 100, 47, 100>>), FALSE), ShellEvent(B(<<108, 115, 32, 47, 115, 100, 99, 97, 114, 100>>), FALSE),
              ShellEvent(B(<<108, 115, 32, 47>>), FALSE), ShellEvent(B(<<109, 107, 100, 105, 114, 32, 45, 112, 32, 47, 115, 100, 99, 97, 114, 100, 47, 100>>), FALSE),
              ShellEvent(B(<<99, 104, 109, 111, 100, 32, 32, 45, 82, 32, 55, 55, 55, 32, 47, 115, 100, 99, 97, 114, 100>>), FALSE) >>


---------------------------------------------------------------------------
(* SpecSync: the four sync operations                                      *)

NextSync == NextPush \/ NextPull \/ NextMetadata

SpecSync == InitDevice /\ [][NextSync]_vars

---------------------------------------------------------------------------
(* Claims on the codes of the server's sync frames                         *)

\* the place in devLog of the last LIST, RECV or STAT written (0 when none),
\* and what was read on the connection after that request
LastRequest ==
    LET at == { i \in 1..Len(devLog) :
                  devLog[i].ev = "write" /\ devLog[i].bytes \in { List, Recv, Stat } }
    IN  IF at = {} THEN 0 ELSE CHOOSE i \in at : \A j \in at : j <= i

SyncReplies ==
    IF devOp = "push"
    THEN IF SessionOpen /\ FirstEvent("write", Done) > 0 THEN SessionRead ELSE <<>>
    ELSE IF LastRequest = 0 THEN <<>>
    ELSE LogBytes(SubSeq(devLog, LastRequest + 3, Len(devLog)), "read")

\* the bytes of a stream behind its leading whole frames of one code, whose
\* length field lies `header` bytes behind the code (DENT: 12, DATA: 0)
RECURSIVE AfterFrames(_, _, _)
AfterFrames(x, code, header) ==
    IF ~StartsWith(x, code) \/ BLen(x) < header + 8 THEN x
    ELSE LET n == LittleEndianValue(Bytes(Take(Drop(x, header + 4), 4)))
         IN  IF BLen(x) < header + 8 + n THEN x
             ELSE AfterFrames(Drop(x, header + 8 + n), code, header)

\* the 4 bytes the operation read where it expected the code of a frame and
\* found none of the codes it knows (<<>> when there are none such)
UnknownCode ==
    LET x == CASE devOp = "list_dir" -> AfterFrames(SyncReplies, Dent, 12)
               [] devOp = "pull" -> AfterFrames(SyncReplies, Data, 0)
               [] OTHER -> SyncReplies
        known == CASE devOp = "list_dir" -> { Dent, Done, Fail }
                   [] devOp = "pull" -> { Data, Done, Fail }
                   [] devOp = "push" -> { Okay, Fail }
                   [] OTHER -> { Stat, Fail }
    IN  IF devOp \in SyncOps /\ BLen(x) >= 4 /\ Take(x, 4) \notin known
        THEN Take(x, 4) ELSE <<>>

\* the operation returns Adb("FAIL (unknown)"): it has, or (push) it will
\* once dest1 is removed
FailsUnknown ==
    \/ devPc = "done" /\ devOut = Err("Adb", UnknownFailure)
    \/ devOp = "push" /\ devPc = "remove_unknown"

---------------------------------------------------------------------------
(* Claims on the directory-progress records                                *)

\* the total size of the first n files of the transfer
CompletedBytes(n) == Sum(SubSeq(devArgs.files, 1, n))

\* C32: every directory-progress record re-emitted by an aggregator task
\* while file k is transferred has transferred_bytes equal to the total size
\* of the files completed before k plus the current transferred_bytes of file
\* k, in push_dir and pull_dir transfers of any number of files.  (The file a
\* record belongs to is transferred_files + 1; the records the transfer task
\* sends itself carry a file progress of 0 bytes and satisfy the same
\* equation.)
C32_AggregatedBytes ==
    devOp \in DirOps =>
        \A i \in 1..Len(xfer.dir) :
            LET r == xfer.dir[i]
                k == r.transferred_files + 1
            IN  /\ r.transferred_bytes
                       = CompletedBytes(k - 1) + r.current_file_progress.transferred_bytes
                /\ r.total_bytes = CompletedBytes(Len(devArgs.files))
                /\ i > 1 =>
                       /\ k \in 1..Len(xfer.chans)
                       /\ \E j \in 1..Len(xfer.chans[k].sent) :
                              xfer.chans[k].sent[j] = r.current_file_progress

\* C32 witness: the aggregator of the second file of a pull_dir re-emitted
\* the record of 1 MiB and a buffer of that file, behind a first file of 2
\* bytes
C32_Witness ==
    /\ devOp = "pull_dir"
    /\ devArgs.files = << 2, PullProgressStep + PullBufLen >>
    /\ Len(xfer.chans) = 2 /\ xfer.chans[2].received >= 2
    /\ \E i \in 1..Len(xfer.dir) :
           /\ xfer.dir[i].transferred_files = 1
           /\ xfer.dir[i].current_file_progress
                  = FileProgress(PullProgressStep + PullBufLen, PullProgressStep + PullBufLen)
           /\ xfer.dir[i].transferred_bytes = 2 + PullProgressStep + PullBufLen


\* the transfer of file k has returned: its sender was dropped
TransferReturned(k) ==
    /\ devOp \in DirOps /\ devArgs.progress
    /\ k \in 1..Len(xfer.chans)
    /\ ~xfer.chans[k].open

\* the aggregator of file k has ended, and had received every record sent on
\* the channel of the file
AggregatorTerminated(k) ==
    /\ devOp \in DirOps
    /\ k \in 1..Len(xfer.chans)
    /\ ~xfer.chans[k].running
    /\ xfer.chans[k].received = Len(xfer.chans[k].sent)

\* C33: every aggregator task spawned by push_dir or pull_dir eventually
\* terminates once the file transfer it serves has returned, whether that
\* transfer succeeded or failed, after forwarding every record that was sent
\* on its file channel.
C33_AggregatorsTerminate ==
    \A k \in 1..MaxFiles : TransferReturned(k) ~> AggregatorTerminated(k)

\* C33 witness: the directory transfer failed in its second file; both
\* aggregators have ended, each with every record of its file forwarded
C33_Witness ==
    /\ devOp \in DirOps /\ devPc = "done" /\ ~IsOk(devOut)
    /\ Len(xfer.chans) = 2
    /\ TransferReturned(2) /\ AggregatorTerminated(1) /\ AggregatorTerminated(2)
    /\ xfer.chans[2].received >= 2
    /\ Len(xfer.dir) = 3 + xfer.chans[1].received + xfer.chans[2].received


---------------------------------------------------------------------------
(* SpecProgress: push_with_progress and pull_with_progress on transfers    *)
(* long enough for intermediate records                                    *)

\* the source of the push: 4 MiB and two buffers
LongSource == Fill(120, PushProgressStep + 2 * PushBufLen)

\* the DATA frames of the pull: all of one length that does not divide 1 MiB,
\* and enough of them for two intermediate records
PacedLen == 60000

MaxPacedFrames == 36

PacedFrames == { Frame(Data, PacedLen, Fill(120, PacedLen)), Frame(Done, 0, <<>>), <<>> }

\* Device::push_with_progress(buffer, dest, mode, total_bytes, sender):
\* push_internal with Some(total_bytes) and Some(sender); the destination is
\* /sdcard/f, whose parent exists
PushWithProgress ==
    /\ devOp = "idle"
    /\ \E short_reads \in 0..MaxShortReads, total_bytes \in PushTotals \cup { BLen(LongSource) } :
        /\ devOp' = "push"
        /\ devPc' = "probe"
        /\ devArgs' = [ dest |-> << B(<<115, 100, 99, 97, 114, 100>>), B(<<102>>) >>,
                        mode |-> 420, package |-> <<>>,
                        progress |-> TRUE, total_bytes |-> total_bytes,
                        source |-> LongSource, existing |-> 1 ]
        /\ xfer' = [ source |-> LongSource, short_reads |-> short_reads,
                     transferred |-> 0, last_progress |-> 0,
                     progress |-> << [total_bytes |-> total_bytes, transferred_bytes |-> 0] >>,
                     current |-> parent(<< B(<<115, 100, 99, 97, 114, 100>>), B(<<102>>) >>),
                     leaf |-> <<>>, root |-> <<>>,
                     copy |-> Ok(<<>>) ]
    /\ UNCHANGED <<devIn, devLog, devOut>>
    /\ UNCHANGED devOthers

\* Device::pull_with_progress(src, buffer, sender): stat(src), taken here by
\* its result (an error, which is returned, or the size of the file), then
\* pull_internal with Some(size) and Some(sender)
PullWithProgress ==
    /\ devOp = "idle"
    /\ \E metadata \in { Err("Adb", StatFailed) } \cup { Ok(size) : size \in StatSizes } :
        /\ devOp' = "pull"
        /\ devArgs' = [ src |-> << B(<<115, 100, 99, 97, 114, 100>>), B(<<102>>) >>,
                        progress |-> TRUE,
                        total_bytes |-> IF IsOk(metadata) THEN metadata.val ELSE 0,
                        frames |-> PacedFrames, data_frames |-> MaxPacedFrames ]
        /\ xfer' = [ sink |-> <<>>, frames |-> 0,
                     transferred |-> 0, last_progress |-> 0,
                     progress |-> IF IsOk(metadata)
                                  THEN << [total_bytes |-> metadata.val, transferred_bytes |-> 0] >>
                                  ELSE <<>> ]
        /\ IF IsOk(metadata) THEN devPc' = "connect" /\ UNCHANGED devOut
           ELSE Return(metadata)
    /\ UNCHANGED <<devIn, devLog>>
    /\ UNCHANGED devOthers

NextProgress ==
    \/ PushWithProgress \/ PullWithProgress
    \/ ProbeAncestor \/ ShellFails
    \/ Connect \/ ConnectFails \/ IoFails
    \/ WriteTransport \/ ReadTransport \/ WriteSync \/ ReadSync
    \/ WriteSend \/ SendChunk \/ SourceEnds \/ WriteDone \/ ReadStatus
    \/ Remove \/ ReadFailure
    \/ WriteRecv \/ ReadFrame

SpecProgress == InitDevice /\ [][NextProgress]_vars


---------------------------------------------------------------------------
(* Claims on the progress records of a transfer                            *)

\* the bytes the transfer has moved so far: from the source to the
\* connection (push), from the connection to the sink (pull)
Moved ==
    IF devOp = "push" THEN BLen(devArgs.source) - BLen(xfer.source) ELSE BLen(xfer.sink)

ProgressStep == IF devOp = "push" THEN PushProgressStep ELSE PullProgressStep

\* each of the records 2..n lies at least a step behind the one before it
Spaced(records, n) ==
    \A i \in 2..n :
        records[i].transferred_bytes - records[i - 1].transferred_bytes >= ProgressStep

\* C34: a successful pull_with_progress or push_with_progress emits first a
\* record with transferred_bytes 0, last a record whose transferred_bytes is
\* the number of bytes actually transferred, and between them an intermediate
\* record exactly when at least 1 MiB (pull) or 4 MiB (push) has been
\* transferred since the previous intermediate record.  While the loop of
\* the transfer runs, the records are the first and the intermediate ones:
\* each lies a step or more behind the one before it, and less than a step
\* was moved since the last of them.
C34_ProgressRecords ==
    (devOp \in { "push", "pull" } /\ devArgs.progress) =>
        \A records \in { xfer.progress }, moved \in { Moved } :
            /\ \A i \in 1..Len(records) : records[i].total_bytes = devArgs.total_bytes
            /\ devPc \in { "sending", "receiving" } =>
                /\ Len(records) >= 1
                /\ records[1].transferred_bytes = 0
                /\ Spaced(records, Len(records))
                /\ moved - records[Len(records)].transferred_bytes \in 0..(ProgressStep - 1)
            /\ (devPc = "done" /\ IsOk(devOut)) =>
                /\ Len(records) >= 2
                /\ records[1].transferred_bytes = 0
                /\ records[Len(records)].transferred_bytes = moved
                /\ devOp = "push" => moved = BLen(devArgs.source)
                /\ Spaced(records, Len(records) - 1)
                /\ moved - records[Len(records) - 1].transferred_bytes \in 0..(ProgressStep - 1)

\* C34 witness: a pull of 36 DATA frames of 60000 bytes ended well: records
\* at 0, at 1080000 (frame 18), at 2160000 (frame 36), and the last record
C34_Witness ==
    /\ devOp = "pull" /\ devPc = "done" /\ IsOk(devOut)
    /\ Len(xfer.progress) = 4
    /\ xfer.progress[2].transferred_bytes = 18 * PacedLen
    /\ xfer.progress[3].transferred_bytes = 36 * PacedLen
    /\ xfer.progress[4].transferred_bytes = BLen(xfer.sink)


---------------------------------------------------------------------------
(* Claims on the walk of list_dir                                          *)

\* the places in devLog where LIST was written, and the path of the request
ListRequests == { i \in 1..Len(devLog) : devLog[i] = Event("write", List) }

ListedPath(i) == devLog[i + 2].bytes

\* the path of a directory of the remote tree, as list_dir asks for it
TreePath(dir) == display_path([devArgs.src EXCEPT !.names = @ \o dir])

\* the walk so far: every LIST names a directory of the tree (its root or a
\* directory entry found, never a symbolic link), none is named twice, and
\* each listing was read to its first DONE, FAIL or unknown code and no
\* further; when list_dir returns its listings every directory was named
ListWalk ==
    devOp = "list_dir" =>
        \A requests \in { ListRequests } :
            /\ \A i \in requests : \E dir \in DOMAIN devArgs.tree : ListedPath(i) = TreePath(dir)
            /\ \A i, j \in requests : ListedPath(i) = ListedPath(j) => i = j
            /\ Cardinality(requests)
                   <= 1 + Cardinality({ n \in 1..Len(xfer.listings) :
                                            xfer.listings[n].file_mode = "Directory" })
            /\ Listed =>
                   /\ Cardinality(requests) = Cardinality(DOMAIN devArgs.tree)
                   /\ Cardinality(requests)
                          = 1 + Cardinality({ n \in 1..Len(devOut.val) :
                                                  devOut.val[n].file_mode = "Directory" })
            /\ \A i \in requests :
                   (i + 3 <= Len(devLog)) =>
                       LET end == AfterFrames(devLog[i + 3].bytes, Dent, 12)
                       IN  /\ devLog[i + 3].ev = "read"
                           /\ (BLen(end) >= 4 /\ Take(end, 4) \notin { Dent, Fail }) => BLen(end) = 4
                           /\ (i + 4 <= Len(devLog)) => devLog[i + 4].ev = "connect"

\* C35: list_dir on a finite remote tree terminates after issuing exactly one
\* LIST per directory (the root plus each directory entry found); symbolic
\* links are never descended into, and each flat listing stops reading at the
\* first DONE, FAIL or unknown code.
C35_ListDirTerminates ==
    /\ []ListWalk
    /\ (devOp = "list_dir") ~> (devOp = "list_dir" /\ devPc = "done")

\* C35 witness: list_dir returned the 6 listings of the tree with the
\* directories d and d/d and the link d/l after 3 LIST requests
C35_Witness ==
    /\ Listed
    /\ Cardinality(DOMAIN devArgs.tree) = 3
    /\ Cardinality(ListRequests) = 3
    /\ Len(devOut.val) = 6
    /\ \E n \in 1..6 : devOut.val[n].file_mode = "SymbolicLink"
    /\ devIn = Fill(0, 16)


---------------------------------------------------------------------------
(* SpecConnections: the TCP connections of a sequence of operations.       *)
(* A connection is a TcpStream value: it is closed when the variable that  *)
(* owns it is dropped, at the return of the function that declared it.     *)

\* the operations a consumer starts one after the other
MaxCalls == 2

\* the calls a function makes to the functions below it
MaxNested == 2

ConnectionOps ==
    { "connect", "execute_command", "execute_host_command", "stat", "pull",
      "list_dir", "push", "track_devices" }

\* the functions with `let mut stream = self.connect().await?`
KeepsStream ==
    { "execute_command", "execute_host_command", "list_dir_flat", "stat", "pull",
      "push" }

\* the functions a function calls, apart from connect: push_internal runs
\* shell commands before it connects and after the status, list_dir calls
\* list_dir_flat for each directory
Callees(fn) ==
    IF fn = "push" THEN { "execute_host_command" }
    ELSE IF fn = "list_dir" THEN { "list_dir_flat" }
    ELSE { }

\* a function that was called and has not returned: its `stream` variable
\* (0: not bound) and the calls it made
Activation(fn) == [fn |-> fn, stream |-> 0, nested |-> 0]

Stack == xfer.stack
Conns == xfer.conns
Calls == xfer.calls

\* the operation the consumer started last
ThisCall == Len(Calls)

\* the consumer holds a host and a device, and has called nothing yet
OpenSession ==
    /\ devOp = "idle"
    /\ devOp' = "connections"
    /\ devPc' = "ready"
    /\ xfer' = [stack |-> <<>>, conns |-> <<>>, calls |-> <<>>, tracker |-> <<>>]
    /\ UNCHANGED <<devArgs, devIn, devLog, devOut>>
    /\ UNCHANGED devOthers

\* the consumer calls an operation and awaits it; track_devices returns its
\* stream of events at once, nothing is connected before the first poll
CallOperation ==
    /\ devOp = "connections"
    /\ Stack = <<>>
    /\ Len(Calls) < MaxCalls
    /\ \E op \in ConnectionOps :
        IF op = "track_devices"
        THEN /\ xfer.tracker = <<>>
             /\ xfer' = [xfer EXCEPT !.calls = Append(@, [op |-> op, result |-> "Streaming"]),
                                     !.tracker = <<[call |-> Len(Calls) + 1, stream |-> 0]>>]
        ELSE xfer' = [xfer EXCEPT !.calls = Append(@, [op |-> op, result |-> "Running"]),
                                  !.stack = <<Activation(op)>>]
    /\ UNCHANGED <<devOp, devPc, devArgs, devIn, devLog, devOut>>
    /\ UNCHANGED devOthers

SessionUnchanged ==
    /\ UNCHANGED <<devOp, devPc, devArgs, devIn, devLog, devOut>>
    /\ UNCHANGED devOthers

Top == Stack[Len(Stack)]

\* self.connect() / self.host.connect() in a function that keeps the stream
CallConnect ==
    /\ devOp = "connections"
    /\ Stack # <<>>
    /\ Top.fn \in KeepsStream
    /\ Top.stream = 0
    /\ xfer' = [xfer EXCEPT !.stack = Append(@, Activation("connect"))]
    /\ SessionUnchanged

\* a call of a function other than connect
CallNested ==
    /\ devOp = "connections"
    /\ Stack # <<>>
    /\ Top.nested < MaxNested
    /\ \E fn \in Callees(Top.fn) :
        xfer' = [xfer EXCEPT !.stack = Append([@ EXCEPT ![Len(Stack)].nested = @ + 1],
                                              Activation(fn))]
    /\ SessionUnchanged

\* TcpStream::connect(&addr) succeeded within the deadline
NewConnection(call) == [call |-> call, open |-> TRUE, users |-> { }]

TcpConnect ==
    /\ devOp = "connections"
    /\ Stack # <<>>
    /\ Top.fn = "connect"
    /\ Top.stream = 0
    /\ xfer' = [xfer EXCEPT !.conns = Append(@, NewConnection(ThisCall)),
                            !.stack[Len(Stack)].stream = Len(Conns) + 1]
    /\ SessionUnchanged

\* stream.set_nodelay, write_all, read_exact, read_to_end on the function's
\* own stream
UseStream ==
    /\ devOp = "connections"
    /\ Stack # <<>>
    /\ Top.stream # 0
    /\ ThisCall \notin Conns[Top.stream].users
    /\ xfer' = [xfer EXCEPT !.conns[Top.stream].users = @ \cup { ThisCall }]
    /\ SessionUnchanged

\* mutant of Dropped: the stream of the function that returns is kept
DroppedButLast(conns, frames) ==
    [ c \in 1..Len(conns) |->
        IF \E f \in 1..(Len(frames) - 1) : frames[f].stream = c
        THEN [conns[c] EXCEPT !.open = FALSE]
        ELSE conns[c] ]

\* the connections after the drop of the `stream` variables of the frames
Dropped(conns, frames) ==
    [ c \in 1..Len(conns) |->
        IF \E f \in 1..Len(frames) : frames[f].stream = c
        THEN [conns[c] EXCEPT !.open = FALSE]
        ELSE conns[c] ]

\* a function returns Ok: connect moves its stream to the variable of its
\* caller, to the consumer when the consumer called it; every other function
\* drops its stream
ReturnsOk ==
    /\ devOp = "connections"
    /\ Stack # <<>>
    /\ Top.fn \in KeepsStream \cup { "connect" } => Top.stream # 0
    /\ LET rest == SubSeq(Stack, 1, Len(Stack) - 1)
           conns == IF Top.fn = "connect" THEN Conns ELSE Dropped(Conns, <<Top>>)
       IN  xfer' = [xfer EXCEPT
                       !.conns = conns,
                       !.stack = IF Top.fn = "connect" /\ rest # <<>>
                                 THEN [rest EXCEPT ![Len(rest)].stream = Top.stream]
                                 ELSE rest,
                       !.calls = IF rest = <<>>
                                 THEN [@ EXCEPT ![ThisCall].result = "Ok"]
                                 ELSE @]
    /\ SessionUnchanged

\* a step fails and every caller passes the error on with `?`: the variables
\* of all the functions on the way are dropped
ReturnsErr ==
    /\ devOp = "connections"
    /\ Stack # <<>>
    /\ xfer' = [xfer EXCEPT !.conns = Dropped(Conns, Stack),
                            !.stack = <<>>,
                            !.calls[ThisCall].result = "Err"]
    /\ SessionUnchanged

\* the first poll of the stream of track_devices connects
TrackerConnects ==
    /\ devOp = "connections"
    /\ Stack = <<>>
    /\ xfer.tracker # <<>>
    /\ xfer.tracker[1].stream = 0
    /\ xfer' = [xfer EXCEPT !.conns = Append(@, NewConnection(xfer.tracker[1].call)),
                            !.tracker[1].stream = Len(Conns) + 1]
    /\ SessionUnchanged

\* a poll writes host:track-devices or reads an event, and yields
TrackerYields ==
    /\ devOp = "connections"
    /\ Stack = <<>>
    /\ xfer.tracker # <<>>
    /\ xfer.tracker[1].stream # 0
    /\ xfer.tracker[1].call \notin Conns[xfer.tracker[1].stream].users
    /\ xfer' = [xfer EXCEPT !.conns[xfer.tracker[1].stream].users =
                                @ \cup { xfer.tracker[1].call }]
    /\ SessionUnchanged

\* the stream of events ends with an error, or the consumer drops it
TrackerEnds ==
    /\ devOp = "connections"
    /\ Stack = <<>>
    /\ xfer.tracker # <<>>
    /\ xfer' = [xfer EXCEPT !.conns = Dropped(Conns, xfer.tracker),
                            !.tracker = <<>>,
                            !.calls[xfer.tracker[1].call].result = "Ended"]
    /\ SessionUnchanged

NextConnections ==
    \/ OpenSession \/ CallOperation
    \/ CallConnect \/ CallNested \/ TcpConnect \/ UseStream
    \/ ReturnsOk \/ ReturnsErr
    \/ TrackerConnects \/ TrackerYields \/ TrackerEnds

SpecConnections == InitDevice /\ [][NextConnections]_vars

---------------------------------------------------------------------------
(* Claims on the connections of an operation                               *)

\* the operation returned to the consumer, with a value or an error
Returned(call) == Calls[call].result \in { "Ok", "Err" }

OpenedBy(call) == { c \in 1..Len(Conns) : Conns[c].call = call }

\* C36 as stated: when an operation returned every connection it opened is
\* closed, and a connection is used by the operation that opened it alone
C36_ConnectionsClosed ==
    devOp = "connections" =>
        /\ \A call \in 1..Len(Calls) :
               Returned(call) => \A c \in OpenedBy(call) : ~Conns[c].open
        /\ \A c \in 1..Len(Conns) : Conns[c].users \subseteq { Conns[c].call }

\* C36, amended: the same of every operation but connect, which returns the
\* connection it opened, open and unused, to the consumer; the connection of
\* track_devices is closed when its stream of events has ended
C36_ConnectionsClosedButConnect ==
    devOp = "connections" =>
        /\ \A call \in 1..Len(Calls) :
               /\ Returned(call) /\ Calls[call].op # "connect" =>
                      \A c \in OpenedBy(call) : ~Conns[c].open
               /\ Calls[call].result = "Err" =>
                      \A c \in OpenedBy(call) : ~Conns[c].open
               /\ Calls[call].result = "Ok" /\ Calls[call].op = "connect" =>
                      /\ Cardinality(OpenedBy(call)) = 1
                      /\ \A c \in OpenedBy(call) : Conns[c].open
               /\ Calls[call].result = "Ended" =>
                      \A c \in OpenedBy(call) : ~Conns[c].open
        /\ \A c \in 1..Len(Conns) : Conns[c].users \subseteq { Conns[c].call }

\* a push that ran a shell command, connected, ran another and returned
\* after a stat: four connections, each used by its operation, all closed
C36_Witness ==
    /\ devOp = "connections"
    /\ Len(Calls) = 2
    /\ Calls[1] = [op |-> "stat", result |-> "Err"]
    /\ Calls[2] = [op |-> "push", result |-> "Ok"]
    /\ Len(Conns) = 4
    /\ \A c \in 1..4 : ~Conns[c].open /\ Conns[c].users = { Conns[c].call }


---------------------------------------------------------------------------
(* Claims on the replies that make the client abort                        *)

\* the operation ended in a panic, not in a value of its Result type
Aborted == devPc = "done" /\ devOut.kind = "Panic"

\* C37 as stated: whatever the server sends, a command on a device, list_dir
\* and pull return a payload or an error value; none of them aborts
C37_NoAbort == ~Aborted

\* the three aborts: split_off(8) of an output of OKAY FAIL and less than 4
\* bytes, and the slice buf[0..n] with n above the 64 KiB of the buffer, for
\* the name of a DENT and for the payload of a DATA
C37_AbortOnShortFail ==
    /\ Aborted
    /\ devOp \notin SyncOps
C37_AbortOnLongName ==
    /\ Aborted
    /\ devOp = "list_dir"
C37_AbortOnLongData ==
    /\ Aborted
    /\ devOp = "pull"


\* the commands on a device, pull and list_dir: the readers of read_response,
\* of DATA frames and of DENT frames
NextReplies == NextDevice \/ NextPull \/ NextList

SpecReplies == InitDevice /\ [][NextReplies]_vars


---------------------------------------------------------------------------
(* Claims on the removal of the destination                                *)

\* "rm -rf "
RemovePrefix == B(<<114, 109, 32, 45, 114, 102, 32>>)

\* the `rm -rf` commands issued so far
Removals == SelectSeq(ShellEvents, LAMBDA e : StartsWith(e.bytes, RemovePrefix))

\* C38 as stated: a push whose destination is not run-as gated issues no
\* `rm -rf`, whatever status follows DONE
C38_NoRemovalWithoutRunAs ==
    devOp = "push" /\ ~EnableRunAs => Removals = <<>>

\* what holds: such a push issues `rm -rf` only after a status that is neither
\* OKAY nor FAIL, once, on the destination itself, and returns FAIL (unknown)
C38_RemovalOnUnknownStatus ==
    devOp = "push" /\ ~EnableRunAs /\ Removals # <<>> =>
        /\ Removals = << ShellEvent(Cat(RemovePrefix, display(devArgs.dest)), FALSE) >>
        /\ BLen(SessionRead) = 4
        /\ SessionRead \notin { Okay, Fail }
        /\ devPc = "done" => devOut = Err("Adb", UnknownFailure)

\* a push to /sdcard/f without run-as read DATA as its status and removed
\* /sdcard/f
C38_DestinationRemoved ==
    /\ devOp = "push" /\ ~EnableRunAs /\ devPc = "done"
    /\ SessionRead = Data
    /\ Removals # <<>>


---------------------------------------------------------------------------
(* Claims on the last directory-progress record                            *)

\* a directory transfer with progress of one file or more returned Ok, and
\* every aggregator has ended: the consumer has received every record
DirTransferCompleted ==
    /\ devOp \in DirOps /\ devArgs.progress
    /\ devPc = "done" /\ IsOk(devOut)
    /\ Len(devArgs.files) >= 1
    /\ \A k \in 1..Len(xfer.chans) : AggregatorTerminated(k)

LastDirRecord == xfer.dir[Len(xfer.dir)]

\* C39 as stated: after a successful push_dir_with_progress or
\* pull_dir_with_progress of one file or more, the last directory-progress
\* record received reports transferred_files = total_files and
\* transferred_bytes = total_bytes
C39_LastRecordReportsTotals ==
    DirTransferCompleted =>
        /\ LastDirRecord.transferred_files = LastDirRecord.total_files
        /\ LastDirRecord.transferred_bytes = LastDirRecord.total_bytes

\* what holds: no record reports more than n - 1 files of n, and after a
\* successful transfer the records of the last file's aggregator end with
\* one that reports total_bytes
C39_FilesOneShort ==
    devOp \in DirOps /\ Len(devArgs.files) >= 1 =>
        /\ \A i \in 1..Len(xfer.dir) :
               xfer.dir[i].transferred_files < xfer.dir[i].total_files
        /\ DirTransferCompleted =>
               \E i \in 1..Len(xfer.dir) :
                   /\ xfer.dir[i].transferred_files = Len(devArgs.files) - 1
                   /\ xfer.dir[i].transferred_bytes = xfer.dir[i].total_bytes

\* a pull_dir of two files succeeded and the record received last is one of
\* the first file's aggregator: neither count is the total
C39_LastRecordOfFirstFile ==
    /\ DirTransferCompleted
    /\ Len(devArgs.files) = 2
    /\ LastDirRecord.transferred_files = 0
    /\ LastDirRecord.transferred_bytes < LastDirRecord.total_bytes


---------------------------------------------------------------------------
(* SpecInstallProgress: install_package_with_progress, the task it spawns  *)
(* to forward the progress of the push, and the values on the progress     *)
(* channel                                                                 *)

\* file_metadata.len() of the apk: empty, 2 bytes, 4 MiB and two buffers
ApkSizes == { 0, 2, PushProgressStep + 2 * PushBufLen }

\* the transferred_bytes of the records push_with_progress sends for a
\* source of this many bytes read in whole buffers: 0, every 4 MiB, the end
PushRecords(size) ==
    << 0 >> \o [k \in 1..(size \div PushProgressStep) |-> k * PushProgressStep] \o << size >>

\* An f32 sent on the progress channel, by the install or by the task, as a
\* multiple of 1 / (10 * file_size); 0.0 / 0.0 is NaN.  The f32 operations
\* are monotonic, so the order of the exact values is that of the f32 values
\* up to equality.
ProgressValue(by, n) == [by |-> by, nan |-> FALSE, n |-> n]
ProgressScale == IF devArgs.file_size = 0 THEN 1 ELSE devArgs.file_size

\* (push_progress.transferred_bytes as f32 / file_size as f32) * 0.9
PushShare(transferred) ==
    IF devArgs.file_size = 0 THEN [by |-> "task", nan |-> TRUE, n |-> 0]
    ELSE ProgressValue("task", 9 * transferred)

NineTenths == ProgressValue("install", 9 * ProgressScale)
One == ProgressValue("install", 10 * ProgressScale)

\* Device::install_package_with_progress: the file name is valid; the
\* metadata, the channel, the task spawned, the file opened
InstallPackageWithProgress ==
    /\ devOp = "idle"
    /\ \E metadata \in { Err("Io", <<>>) } \cup { Ok(size) : size \in ApkSizes },
          opened \in BOOLEAN, reinstall \in BOOLEAN :
        /\ devOp' = "install_package_with_progress"
        /\ devArgs' = [ name |-> << B(<<97, 112, 112, 46, 97, 112, 107>>) >>,
                        reinstall |-> reinstall, grant_runtime_permissions |-> FALSE,
                        file_size |-> IF IsOk(metadata) THEN metadata.val ELSE 0 ]
        /\ xfer' = [ output |-> <<>>, values |-> <<>>,
                     push |-> [ sent |-> <<>>, received |-> 0,
                                open |-> IsOk(metadata) /\ opened,
                                running |-> IsOk(metadata) ] ]
        /\ IF ~IsOk(metadata) THEN Return(metadata)
           ELSE IF ~opened THEN Return(Err("Io", <<>>))
           ELSE devPc' = "push_apk" /\ UNCHANGED devOut
    /\ UNCHANGED <<devIn, devLog>>
    /\ UNCHANGED devOthers

\* push_with_progress sends its next record on the channel of the push
InstallPushSends ==
    /\ devOp = "install_package_with_progress"
    /\ devPc = "push_apk"
    /\ Len(xfer.push.sent) < Len(PushRecords(devArgs.file_size))
    /\ xfer' = [xfer EXCEPT !.push.sent =
                   Append(@, FileProgress(devArgs.file_size,
                                          PushRecords(devArgs.file_size)[Len(@) + 1]))]
    /\ UNCHANGED <<devOp, devPc, devArgs, devIn, devLog, devOut>>
    /\ UNCHANGED devOthers

\* push_with_progress(..).await? : an error at any point, or Ok after the
\* last record; the sender of the push channel is dropped; then
\* `let _ = progress_sender.send(0.9)`
InstallPushReturns ==
    /\ devOp = "install_package_with_progress"
    /\ devPc = "push_apk"
    /\ devLog' = Append(devLog, Event("push", display(tmp_apk_path(devArgs.name[1]))))
    /\ \E result \in { Ok(<<>>) } \cup CallErrors :
        IF IsOk(result)
        THEN /\ Len(xfer.push.sent) = Len(PushRecords(devArgs.file_size))
             /\ xfer' = [xfer EXCEPT !.push.open = FALSE, !.values = Append(@, NineTenths)]
             /\ devPc' = "pm_install"
             /\ UNCHANGED devOut
        ELSE /\ xfer' = [xfer EXCEPT !.push.open = FALSE]
             /\ Return(result)
    /\ UNCHANGED <<devOp, devArgs, devIn>>
    /\ UNCHANGED devOthers

\* let output = self.execute_host_shell_command(&command).await?
InstallPmWithProgress ==
    /\ devOp = "install_package_with_progress"
    /\ devPc = "pm_install"
    /\ devLog' = Append(devLog,
                        ShellEvent(pm_install(devArgs.reinstall, devArgs.grant_runtime_permissions,
                                              tmp_apk_path(devArgs.name[1])), FALSE))
    /\ \E result \in { Ok(B(<<83, 117, 99, 99, 101, 115, 115, 10>>)),
                       Ok(B(<<70, 97, 105, 108, 117, 114, 101>>)) } \cup CallErrors :
        IF IsOk(result)
        THEN /\ xfer' = [xfer EXCEPT !.output = << result.val >>]
             /\ devPc' = "rm_apk"
             /\ UNCHANGED devOut
        ELSE Return(result) /\ UNCHANGED xfer
    /\ UNCHANGED <<devOp, devArgs, devIn>>
    /\ UNCHANGED devOthers

\* the rm of the apk, the test of the output, `let _ = progress_sender.send(1.0)`
InstallRmWithProgress ==
    /\ devOp = "install_package_with_progress"
    /\ devPc = "rm_apk"
    /\ devLog' = Append(devLog,
                        ShellEvent(Cat(B(<<114, 109, 32>>), display(tmp_apk_path(devArgs.name[1]))), FALSE))
    /\ \E result \in { Ok(<<>>) } \cup CallErrors :
        IF IsOk(result)
        THEN /\ Return(install_result(xfer.output[1]))
             /\ xfer' = IF IsOk(install_result(xfer.output[1]))
                        THEN [xfer EXCEPT !.values = Append(@, One)]
                        ELSE xfer
        ELSE Return(result) /\ UNCHANGED xfer
    /\ UNCHANGED <<devOp, devArgs, devIn>>
    /\ UNCHANGED devOthers

\* the spawned task: push_receiver.recv() yields the next record, and its
\* share is sent on the progress channel
ForwardPushProgress ==
    /\ devOp = "install_package_with_progress"
    /\ xfer.push.running
    /\ xfer.push.received < Len(xfer.push.sent)
    /\ xfer' = [xfer EXCEPT
                   !.push.received = @ + 1,
                   !.values = Append(@, PushShare(xfer.push.sent[xfer.push.received + 1].transferred_bytes))]
    /\ UNCHANGED <<devOp, devPc, devArgs, devIn, devLog, devOut>>
    /\ UNCHANGED devOthers

\* recv() yields None: the sender was dropped and the channel is empty
ForwarderEnds ==
    /\ devOp = "install_package_with_progress"
    /\ xfer.push.running
    /\ ~xfer.push.open
    /\ xfer.push.received = Len(xfer.push.sent)
    /\ xfer' = [xfer EXCEPT !.push.running = FALSE]
    /\ UNCHANGED <<devOp, devPc, devArgs, devIn, devLog, devOut>>
    /\ UNCHANGED devOthers

NextInstallProgress ==
    \/ InstallPackageWithProgress
    \/ InstallPushSends \/ InstallPushReturns
    \/ InstallPmWithProgress \/ InstallRmWithProgress
    \/ ForwardPushProgress \/ ForwarderEnds

SpecInstallProgress == InitDevice /\ [][NextInstallProgress]_vars

---------------------------------------------------------------------------
(* Claims on the values of the install progress                            *)

\* a <= b as f32: false when either is NaN
ProgressLeq(a, b) == ~a.nan /\ ~b.nan /\ a.n <= b.n

NonDecreasing(values) ==
    \A i \in 1..(Len(values) - 1) : ProgressLeq(values[i], values[i + 1])

\* the install returned Ok and the task has ended: every value was received
InstallSucceeded ==
    /\ devOp = "install_package_with_progress"
    /\ devPc = "done" /\ IsOk(devOut)
    /\ ~xfer.push.running

\* C40 as stated: the values received on the progress channel are
\* non-decreasing and, on success, the last value received is 1.0, under
\* every scheduling of the spawned task
C40_ProgressMonotone ==
    devOp = "install_package_with_progress" =>
        /\ NonDecreasing(xfer.values)
        /\ InstallSucceeded => xfer.values[Len(xfer.values)] = One

SentBy(by) == SelectSeq(xfer.values, LAMBDA v : v.by = by)

\* what holds: the install sends 0.9 after the push and 1.0 on success, in
\* this order; the values of the task are non-decreasing and at most 0.9 when
\* the apk is not empty; nothing orders the values of the one and the other
C40_ProgressPerSender ==
    devOp = "install_package_with_progress" =>
        /\ SentBy("install") \in { <<>>, << NineTenths >>, << NineTenths, One >> }
        /\ InstallSucceeded => SentBy("install") = << NineTenths, One >>
        /\ devArgs.file_size > 0 =>
               /\ NonDecreasing(SentBy("task"))
               /\ \A i \in 1..Len(SentBy("task")) : ProgressLeq(SentBy("task")[i], NineTenths)
        /\ devArgs.file_size = 0 => \A i \in 1..Len(SentBy("task")) : SentBy("task")[i].nan

\* the install of an apk of 2 bytes succeeded, and the task forwarded the
\* first record of the push after the install had sent 1.0
C40_LateForward ==
    /\ InstallSucceeded
    /\ devArgs.file_size = 2
    /\ xfer.values = << NineTenths, One, PushShare(0), PushShare(2) >>

=============================================================================
